---------------------------- MODULE Spec2Model ----------------------------
(***************************************************************************)
(* A model of e-gov-hourei-to-obsidian (src/src/main.rs): the breadth-first *)
(* crawl of Processor::run, the law-name dictionary, the unresolved-        *)
(* reference store and the text functions they rest on.                     *)
(*                                                                          *)
(* Text is a sequence of characters; a character is a short ASCII name of   *)
(* the character of the source text it stands for:                          *)
(*   ho 法   ritsu 律  sei 政   rei 令   shou 省  fu 府   ki 規   soku 則         *)
(*   jou 条  rei2 例   yaku 約  kai 改   sei2 正  zen 前  go 後   kyuu 旧        *)
(*   shin 新 chuu 中   dou 同   hon 本   ki2 記   ko こ   no の                 *)
(*   dai 第  kou 項    gou 号   ji 次    ichi 一  ni 二   min 民  kei 刑        *)
(*   shou2 商  ten 、  maru 。  sp ' '   zsp '　' (U+3000)  nl '\n'  tab '\t'    *)
(*   zlp （  zrp ）  lk 「  rk 」  lkk 『  rkk 』                                *)
(* and the ASCII characters # [ ] | / \ : * ? " < > . _ ( ) E X T L I N K   *)
(* and the digits stand for themselves ("bs" is the backslash, "dq" the     *)
(* double quote).                                                           *)
(*                                                                          *)
(* Option<T> is a sequence of length at most one: None is <<>>, Some(x) is  *)
(* <<x>>.                                                                   *)
(***************************************************************************)
EXTENDS Integers, Sequences, FiniteSets, TLC

Some(x) == <<x>>
None == <<>>
IsSome(o) == o # <<>>
Unwrap(o) == o[1]
UnwrapOr(o, d) == IF o = <<>> THEN d ELSE o[1]

Min(a, b) == IF a <= b THEN a ELSE b
\* the largest and the smallest element of a non-empty set of numbers
Max(S) == CHOOSE k \in S : \A m \in S : m <= k
MinOf(S) == CHOOSE k \in S : \A m \in S : k <= m

(***************************************************************************)
(* Character classes of the regular expressions, over the model's alphabet. *)
(***************************************************************************)
Digits == {"0", "1", "2", "3", "4", "5", "6", "7", "8", "9"}
\* 一二三四五六七八九十百千〇 (the alphabet holds 一 and 二)
KanjiNumerals == {"ichi", "ni"}
\* [0-9一二三四五六七八九十百千〇]
Numerals == Digits \cup KanjiNumerals
\* 一-龥
Kanji == {"ho", "ritsu", "sei", "rei", "shou", "fu", "ki", "soku", "jou", "rei2",
          "yaku", "kai", "sei2", "zen", "go", "kyuu", "shin", "chuu", "dou", "hon",
          "ki2", "dai", "kou", "gou", "ji", "ichi", "ni", "min", "kei", "shou2"}
\* ぁ-ん
Hiragana == {"ko", "no"}
\* A-Za-z
AsciiLetters == {"E", "X", "T", "L", "I", "N", "K"}
\* [一-龥ァ-ヶーA-Za-z0-9・] of LAW_TOKEN_RE
TokenClass == Kanji \cup AsciiLetters \cup Digits
\* [ぁ-んァ-ヶー一-龥A-Za-z0-9・（）()「」『』] of ref_re and ext_article_re
RefClass == TokenClass \cup Hiragana \cup {"zlp", "zrp", "(", ")", "lk", "rk", "lkk", "rkk"}
\* the characters normalize_law_ref_title trims from both ends
TrimChars == {"sp", "zsp", "zlp", "zrp", "(", ")", "lk", "rk", "lkk", "rkk", "ten", "maru"}
\* the characters normalize_law_ref_title trims from the start of the token
LeadChars == Numerals \cup {"dai", "jou", "kou", "gou"}
\* char::is_whitespace, as str::trim sees it
Whitespace == {"sp", "zsp", "nl", "tab"}

\* (?:法|法律|政令|省令|府令|規則|条例|条約), in the order of the alternation
LawSuffixes == << <<"ho">>, <<"ho", "ritsu">>, <<"sei", "rei">>, <<"shou", "rei">>,
                  <<"fu", "rei">>, <<"ki", "soku">>, <<"jou", "rei2">>, <<"jou", "yaku">> >>
\* "同法" | "同法律" | "この法律" | "本法" | "前記法"
AnaphoricLaws == { <<"dou", "ho">>, <<"dou", "ho", "ritsu">>, <<"ko", "no", "ho", "ritsu">>,
                   <<"hon", "ho">>, <<"zen", "ki2", "ho">> }
\* 改正前, 改正後, 旧, 新, in the order of the strip_prefix chain
Qualifiers == << <<"kai", "sei2", "zen">>, <<"kai", "sei2", "go">>, <<"kyuu">>, <<"shin">> >>

(***************************************************************************)
(* str helpers.  (A value that is used more than once is a parameter of a   *)
(* local operator: TLC evaluates it once.)                                  *)
(***************************************************************************)
From(s, i) == SubSeq(s, i, Len(s))
StartsWithAt(s, i, p) == i + Len(p) - 1 <= Len(s) /\ SubSeq(s, i, i + Len(p) - 1) = p
StartsWith(s, p) == StartsWithAt(s, 1, p)
EndsWith(s, p) == Len(p) <= Len(s) /\ SubSeq(s, Len(s) - Len(p) + 1, Len(s)) = p
\* str::contains
Contains(s, p) == \E i \in 1..(Len(s) + 1) : StartsWithAt(s, i, p)
\* the length of the longest run of characters of cls that starts at s[i]
ClassRun(s, i, cls) ==
  CHOOSE k \in 0..(Len(s) - i + 1) :
    /\ \A j \in 0..(k - 1) : s[i + j] \in cls
    /\ (i + k > Len(s) \/ s[i + k] \notin cls)
\* the length of the longest run of characters of cls that ends s
ClassRunBack(s, cls) ==
  CHOOSE k \in 0..Len(s) :
    /\ \A j \in (Len(s) - k + 1)..Len(s) : s[j] \in cls
    /\ (k = Len(s) \/ s[Len(s) - k] \notin cls)
\* str::trim_start_matches / trim_end_matches / trim_matches with a character set
TrimStartSet(s, cls) == From(s, ClassRun(s, 1, cls) + 1)
TrimEndSet(s, cls) == SubSeq(s, 1, Len(s) - ClassRunBack(s, cls))
TrimSet(s, cls) == TrimEndSet(TrimStartSet(s, cls), cls)
\* str::strip_prefix
StripPrefix(s, p) == IF StartsWith(s, p) THEN Some(From(s, Len(p) + 1)) ELSE None
\* the first suffix of the alternation that matches at s[i], as an index of
\* LawSuffixes; 0 when none does
SuffixAt(s, i) ==
  LET First(hits) == IF hits = {} THEN 0 ELSE MinOf(hits)
  IN First({n \in DOMAIN LawSuffixes : StartsWithAt(s, i, LawSuffixes[n])})

(***************************************************************************)
(* normalize_law_ref_title.                                                 *)
(***************************************************************************)
\* the {1,30} of LAW_TOKEN_RE
TokenMaxRun == 30
\* The end of the match of LAW_TOKEN_RE that starts at s[i], 0 when there is
\* none: the class run is greedy, so the longest run that a suffix follows wins.
LawTokenMatchEnd(s, i) ==
  LET End(k) == i + k + Len(LawSuffixes[SuffixAt(s, i + k)]) - 1
      Longest(ks) == IF ks = {} THEN 0 ELSE End(Max(ks))
  IN Longest({k \in 1..Min(TokenMaxRun, ClassRun(s, i, TokenClass)) : SuffixAt(s, i + k) # 0})

RECURSIVE LastLawToken(_, _, _)
\* for m in re.find_iter(trimmed) { last = Some(m.as_str()) }
LastLawToken(s, i, last) ==
  LET Go(e) == IF e = 0 THEN LastLawToken(s, i + 1, last)
               ELSE LastLawToken(s, e + 1, Some(SubSeq(s, i, e)))
  IN IF i > Len(s) THEN last ELSE Go(LawTokenMatchEnd(s, i))

\* strip_prefix("改正前").or_else(..."改正後").or_else(..."旧").or_else(..."新").unwrap_or(token)
StripQualifier(token) ==
  LET Strip(hits) == IF hits = {} THEN token
                     ELSE From(token, Len(Qualifiers[MinOf(hits)]) + 1)
  IN Strip({n \in DOMAIN Qualifiers : StartsWith(token, Qualifiers[n])})

EndsWithLawSuffix(s) == \E n \in DOMAIN LawSuffixes : EndsWith(s, LawSuffixes[n])

\* token.rsplit_once('中'): the part after the last 中, kept when it ends in a suffix
RightOfConnective(token) ==
  LET Keep(right) == IF EndsWithLawSuffix(right) THEN right ELSE token
      Split(at) == IF at = {} THEN token ELSE Keep(From(token, Max(at) + 1))
  IN Split({i \in 1..Len(token) : token[i] = "chuu"})

\* a normalizer without the check of the stripped token against the anaphoric
\* names: the faulty variant of normalize_law_ref_title
NormalizeUnfiltered(s) ==
  LET Accept(token) == IF Len(token) >= 2 THEN Some(token) ELSE None
      DropConnective(token) == UnwrapOr(StripPrefix(token, <<"chuu">>), token)
      Strip(token) ==
        Accept(RightOfConnective(StripQualifier(DropConnective(
                 TrimStartSet(StripQualifier(token), LeadChars)))))
      OfLast(last) == IF last = None THEN None ELSE Strip(Unwrap(last))
      OfTrimmed(trimmed) == IF trimmed = <<>> THEN None
                            ELSE IF trimmed \in AnaphoricLaws THEN None
                            ELSE OfLast(LastLawToken(trimmed, 1, None))
  IN OfTrimmed(TrimSet(s, TrimChars))
normalize_law_ref_title(s) ==
  LET Accept(token) == IF token \in AnaphoricLaws THEN None
                       ELSE IF Len(token) >= 2 THEN Some(token)
                       ELSE None
      \* token.strip_prefix("中").unwrap_or(token)
      DropConnective(token) == UnwrapOr(StripPrefix(token, <<"chuu">>), token)
      Strip(token) ==
        Accept(RightOfConnective(StripQualifier(DropConnective(
                 TrimStartSet(StripQualifier(token), LeadChars)))))
      OfLast(last) == IF last = None THEN None ELSE Strip(Unwrap(last))
      OfTrimmed(trimmed) == IF trimmed = <<>> THEN None
                            ELSE IF trimmed \in AnaphoricLaws THEN None
                            ELSE OfLast(LastLawToken(trimmed, 1, None))
  IN OfTrimmed(TrimSet(s, TrimChars))

(***************************************************************************)
(* More str helpers.                                                        *)
(***************************************************************************)
RECURSIVE Concat(_)
\* the concatenation of a sequence of texts
Concat(parts) == IF parts = <<>> THEN <<>> ELSE Head(parts) \o Concat(Tail(parts))

RECURSIVE SplitLines(_, _, _)
\* str::lines: the text split at every '\n'; a final '\n' ends the last line
\* and starts no further one
SplitLines(s, i, cur) ==
  IF i > Len(s) THEN (IF cur = <<>> THEN <<>> ELSE <<cur>>)
  ELSE IF s[i] = "nl" THEN <<cur>> \o SplitLines(s, i + 1, <<>>)
  ELSE SplitLines(s, i + 1, Append(cur, s[i]))
Lines(s) == SplitLines(s, 1, <<>>)
\* str::trim
Trim(s) == TrimSet(s, Whitespace)

RECURSIVE JoinLines(_)
\* Vec<&str>::join("\n")
JoinLines(ls) ==
  IF ls = <<>> THEN <<>>
  ELSE IF Len(ls) = 1 THEN ls[1]
  ELSE ls[1] \o <<"nl">> \o JoinLines(Tail(ls))

RECURSIVE ReplaceAllStr(_, _, _)
\* str::replace(from, to), from not empty
ReplaceAllStr(s, from, to) ==
  IF s = <<>> THEN <<>>
  ELSE IF StartsWith(s, from) THEN to \o ReplaceAllStr(From(s, Len(from) + 1), from, to)
  ELSE <<Head(s)>> \o ReplaceAllStr(Tail(s), from, to)

RECURSIVE CollapseRuns(_, _, _, _)
\* Regex::replace_all of a run of at least atLeast characters of cls by `to`
CollapseRuns(s, cls, atLeast, to) ==
  LET Go(run) == IF run >= atLeast THEN to \o CollapseRuns(From(s, run + 1), cls, atLeast, to)
                 ELSE <<Head(s)>> \o CollapseRuns(Tail(s), cls, atLeast, to)
  IN IF s = <<>> THEN <<>> ELSE Go(ClassRun(s, 1, cls))

(***************************************************************************)
(* sanitize_filename and the link targets.                                  *)
(***************************************************************************)
\* '/' | '\\' | ':' | '*' | '?' | '"' | '<' | '>' | '|'
ForbiddenChars == {"/", "bs", ":", "*", "?", "dq", "<", ">", "|"}

sanitize_filename(s) ==
  TrimEndSet(Trim([i \in 1..Len(s) |-> IF s[i] \in ForbiddenChars THEN "_" ELSE s[i]]), {"."})

RECURSIVE StripDotSlash(_)
\* while s.starts_with("./") { s = s.trim_start_matches("./") }
StripDotSlash(s) == IF StartsWith(s, <<".", "/">>) THEN StripDotSlash(From(s, 3)) ELSE s

obsidian_dir(output_dir) ==
  LET Cleared(s) == IF s = <<".">> THEN <<>> ELSE s
  IN TrimSet(StripDotSlash(Cleared(
       [i \in 1..Len(output_dir) |-> IF output_dir[i] = "bs" THEN "/" ELSE output_dir[i]])),
       {"/"})

obsidian_note_target(dir, law_title) ==
  IF dir = <<>> THEN sanitize_filename(law_title)
  ELSE dir \o <<"/">> \o sanitize_filename(law_title)

extract_heading_anchor(line) ==
  LET Anchor(s) ==
        IF StartsWith(s, <<"dai">>) /\ \E i \in 1..Len(s) : s[i] = "jou"
        THEN Some(SubSeq(s, 1, MinOf({i \in 1..Len(s) : s[i] = "jou"})))
        ELSE None
  IN Anchor(Trim(TrimStartSet(line, {"#"})))

(***************************************************************************)
(* law_full_text_json_to_markdown.  A serde_json Value is a record:         *)
(*   [kind |-> "String", s |-> text]                                        *)
(*   [kind |-> "Array", items |-> <<Value, ...>>]                           *)
(*   [kind |-> "Object", tag |-> the string under "tag" ("" when absent),   *)
(*    children |-> Option<Value> under "children",                          *)
(*    values |-> the map's values in iteration order]                       *)
(*   [kind |-> "Null"] (and every other kind)                               *)
(***************************************************************************)
BlockTags == {"Law", "LawBody", "MainProvision", "Part", "Chapter", "Section",
              "Subsection", "Division", "Article", "Paragraph", "Item", "Subitem",
              "SupplProvision", "AppdxTable", "AppdxNote", "AppdxStyle", "Appdx"}

\* if is_block && !out.ends_with('\n') { out.push('\n') }
BlockBreak(is_block, out) ==
  IF is_block /\ ~EndsWith(out, <<"nl">>) THEN Append(out, "nl") ELSE out

RECURSIVE append_law_text(_, _)
RECURSIVE AppendEach(_, _)
\* for item in arr { append_law_text(item, out) }
AppendEach(items, out) ==
  IF items = <<>> THEN out ELSE AppendEach(Tail(items), append_law_text(Head(items), out))
append_law_text(v, out) ==
  LET Inner(out1) == IF IsSome(v.children) THEN append_law_text(Unwrap(v.children), out1)
                     ELSE AppendEach(v.values, out1)
      Block(is_block) == BlockBreak(is_block, Inner(BlockBreak(is_block, out)))
  IN CASE v.kind = "String" -> out \o v.s
       [] v.kind = "Array" -> AppendEach(v.items, out)
       [] v.kind = "Object" -> Block(v.tag \in BlockTags)
       [] OTHER -> out

\* the text of law_full_text_json_to_markdown: blanks and line breaks
\* squeezed, every line trimmed, the empty lines dropped
FlattenedText(v) ==
  LET TrimEach(ls) == [i \in 1..Len(ls) |-> Trim(ls[i])]
      Squeeze(out) == CollapseRuns(CollapseRuns(out, {"sp", "tab"}, 1, <<"sp">>),
                                   {"nl"}, 3, <<"nl", "nl">>)
  IN JoinLines(SelectSeq(TrimEach(Lines(Squeeze(append_law_text(v, <<>>)))),
                         LAMBDA l : l # <<>>))

\* a conversion that accepts an empty text: the faulty variant of
\* law_full_text_json_to_markdown
FlattenedUnchecked(v) == Some(FlattenedText(v))
\* Err is None: if text.is_empty() { bail!(...) }
law_full_text_json_to_markdown(v) ==
  LET NonEmpty(text) == IF text = <<>> THEN None ELSE Some(text)
  IN NonEmpty(FlattenedText(v))

(***************************************************************************)
(* ensure_article_headings.                                                 *)
(***************************************************************************)
\* (?m)^(第N+条(?:のN+)?) on one line: the length of the token, 0 when none
ArticleHeadLen(line) ==
  LET Branch(e, m) == IF m > 0 THEN e + 1 + m ELSE e
      After(e) == Branch(e, IF StartsWithAt(line, e + 1, <<"no">>)
                            THEN ClassRun(line, e + 2, Numerals) ELSE 0)
      Number(n) == IF n = 0 \/ ~StartsWithAt(line, 2 + n, <<"jou">>) THEN 0
                   ELSE After(2 + n)
  IN IF ~StartsWith(line, <<"dai">>) THEN 0 ELSE Number(ClassRun(line, 2, Numerals))

RECURSIVE HeadedLines(_)
HeadedLines(ls) ==
  LET Headed(line, token) ==
        IF StartsWith(line, <<"#">>) THEN line \o <<"nl">>
        ELSE IF token # <<>>
        THEN <<"#", "#", "sp">> \o token \o <<"nl">>
             \o (IF Trim(line) # token THEN line \o <<"nl">> ELSE <<>>)
        ELSE line \o <<"nl">>
      One(line) == Headed(line, SubSeq(line, 1, ArticleHeadLen(line)))
  IN IF ls = <<>> THEN <<>> ELSE One(Head(ls)) \o HeadedLines(Tail(ls))

ensure_article_headings(markdown) == HeadedLines(Lines(markdown))

(***************************************************************************)
(* ref_re / ext_article_re:                                                 *)
(*   (?P<law>[...]{1,40}?(?:法|...|条約))第(?P<n>[0-9一...〇]+)条            *)
(***************************************************************************)
\* the {1,40}? of ref_re and ext_article_re
RefMaxRun == 40

\* the numerals at s[p], 0 past the end of s
NumeralRun(s, p) == IF p <= Len(s) THEN ClassRun(s, p, Numerals) ELSE 0

\* For a class run of k characters from s[i]: the first suffix of the
\* alternation after which 第, numerals and 条 follow, as [from, law_end,
\* n_from, n_to, end]; None when no suffix does.
RefTail(s, i, k) ==
  LET Tail3(p, r) == /\ StartsWithAt(s, p, <<"dai">>)
                     /\ r >= 1
                     /\ StartsWithAt(s, p + 1 + r, <<"jou">>)
      After(p) == Tail3(p, NumeralRun(s, p + 1))
      ok(n) == StartsWithAt(s, i + k, LawSuffixes[n]) /\ After(i + k + Len(LawSuffixes[n]))
      Captures(p, r) == [from |-> i, law_end |-> p - 1, n_from |-> p + 1, n_to |-> p + r,
                         end |-> p + 1 + r]
      At(p) == Captures(p, NumeralRun(s, p + 1))
      First(hits) == IF hits = {} THEN None
                     ELSE Some(At(i + k + Len(LawSuffixes[MinOf(hits)])))
  IN First({n \in DOMAIN LawSuffixes : ok(n)})

\* The match that starts at s[i]: the class run is lazy, so the shortest run
\* that the rest of the pattern follows wins.
RefMatchAt(s, i) ==
  LET Shortest(ks) == IF ks = {} THEN None ELSE RefTail(s, i, MinOf(ks))
  IN Shortest({k \in 1..Min(RefMaxRun, ClassRun(s, i, RefClass)) : RefTail(s, i, k) # None})

RECURSIVE RefMatches(_, _)
\* captures_iter: the non-overlapping matches, leftmost first
RefMatches(s, i) ==
  LET Go(m) == IF m = None THEN RefMatches(s, i + 1)
               ELSE <<Unwrap(m)>> \o RefMatches(s, Unwrap(m).end + 1)
  IN IF i > Len(s) THEN <<>> ELSE Go(RefMatchAt(s, i))

(***************************************************************************)
(* resolve_law_title_from_fragment and extract_external_references.         *)
(* The dictionary is a function from its keys to LawDictEntry records       *)
(* [law_id, law_num : Option<text>, law_title : text].                      *)
(***************************************************************************)
\* the characters of the alphabet that UTF-8 encodes in one byte
AsciiChars == Digits \cup AsciiLetters \cup
              {"sp", "nl", "tab", "#", "[", "]", "|", "/", "bs", ":", "*", "?", "dq",
               "<", ">", ".", "_", "(", ")"}
RECURSIVE ByteLen(_)
\* str::len: the length in bytes
ByteLen(s) == IF s = <<>> THEN 0
              ELSE (IF Head(s) \in AsciiChars THEN 1 ELSE 3) + ByteLen(Tail(s))

\* the keys the containment scan can end on: the keys contained in the
\* token that no contained key exceeds in byte length
LongestKeys(normalized, dictionary) ==
  LET Longest(inside) == {k \in inside : \A j \in inside : ByteLen(j) <= ByteLen(k)}
  IN Longest({k \in DOMAIN dictionary : Contains(normalized, k)})

\* `order` is the iteration order of dictionary.keys(): best is replaced only
\* by a strictly longer key, so the first of the longest keys wins.
resolve_law_title_from_fragment(fragment, dictionary, order) ==
  LET FirstOf(longest) == order[MinOf({i \in 1..Len(order) : order[i] \in longest})]
      Scan(normalized, longest) ==
        IF longest # {} THEN Some(dictionary[FirstOf(longest)].law_title)
        ELSE Some(normalized)
      Resolve(normalized) ==
        IF normalized \in DOMAIN dictionary THEN Some(dictionary[normalized].law_title)
        ELSE Scan(normalized, LongestKeys(normalized, dictionary))
      OfNormalized(n) == IF n = None THEN None ELSE Resolve(Unwrap(n))
  IN OfNormalized(normalize_law_ref_title(fragment))

\* HashSet<LawRef>
extract_external_references(markdown, dictionary, source_law, order) ==
  LET Ref(m, title) == [source_law |-> source_law, law_title |-> Unwrap(title),
                        article |-> <<"dai">> \o SubSeq(markdown, m.n_from, m.n_to) \o <<"jou">>]
      Resolved(ms) == [i \in 1..Len(ms) |->
                         <<ms[i], resolve_law_title_from_fragment(
                                    SubSeq(markdown, ms[i].from, ms[i].law_end),
                                    dictionary, order)>>]
      Collect(rs) == {Ref(rs[i][1], rs[i][2]) : i \in {j \in 1..Len(rs) : rs[j][2] # None}}
  IN Collect(Resolved(RefMatches(markdown, 1)))

\* the sequences that list every element of the set S once
Perms(S) == {f \in [1..Cardinality(S) -> S] : \A i, j \in 1..Cardinality(S) : f[i] = f[j] => i = j}

\* The iteration orders of dictionary.keys() that extract_external_references
\* can tell apart on this text: the orders of the keys that tie for longest in
\* some captured fragment (the other keys follow in a fixed order).
KeyOrders(markdown, dictionary) ==
  LET Ties(n) == IF n = None THEN {}
                 ELSE IF Unwrap(n) \in DOMAIN dictionary THEN {}
                 ELSE LongestKeys(Unwrap(n), dictionary)
      Several(keys) == IF Cardinality(keys) > 1 THEN keys ELSE {}
      Tied(ms) == UNION {Several(Ties(normalize_law_ref_title(
                                        SubSeq(markdown, ms[i].from, ms[i].law_end)))) :
                           i \in 1..Len(ms)}
      Orders(tied, rest) == {p \o rest : p \in Perms(tied)}
      WithRest(tied) == Orders(tied, CHOOSE r \in Perms(DOMAIN dictionary \ tied) : TRUE)
  IN WithRest(Tied(RefMatches(markdown, 1)))

(***************************************************************************)
(* linkify_markdown.                                                        *)
(***************************************************************************)
DecimalDigits == <<"0", "1", "2", "3", "4", "5", "6", "7", "8", "9">>
RECURSIVE Decimal(_)
\* usize::to_string
Decimal(n) ==
  IF n < 10 THEN <<DecimalDigits[n + 1]>>
  ELSE Decimal(n \div 10) \o <<DecimalDigits[(n % 10) + 1]>>

\* format!("__EXT_LINK_{}__", i)
ExtPlaceholder(i) ==
  <<"_", "_", "E", "X", "T", "_", "L", "I", "N", "K", "_">> \o Decimal(i) \o <<"_", "_">>

\* format!("[[{}#{}|{}]]", target, anchor, label)
WikiLink(target, anchor, label) ==
  <<"[", "[">> \o target \o <<"#">> \o anchor \o <<"|">> \o label \o <<"]", "]">>

\* the text r.text with `head` before it
Prepend(head, r) == [r EXCEPT !.text = head \o @]

RECURSIVE ReplaceExternal(_, _, _, _)
\* ext_article_re.replace_all over `line` from position i: the text with each
\* linked reference replaced by a placeholder, and the placeholders' links
ReplaceExternal(line, i, link_dir, placeholders) ==
  LET Linked(m, law, art, key) ==
        Prepend(key, ReplaceExternal(line, m.end + 1, link_dir,
                  Append(placeholders,
                         [key |-> key,
                          link |-> WikiLink(obsidian_note_target(link_dir, law),
                                            art, law \o art)])))
      Replace(m, law) ==
        IF law = None
        THEN Prepend(SubSeq(line, m.from, m.end),
                     ReplaceExternal(line, m.end + 1, link_dir, placeholders))
        ELSE Linked(m, Unwrap(law),
                    <<"dai">> \o SubSeq(line, m.n_from, m.n_to) \o <<"jou">>,
                    ExtPlaceholder(Len(placeholders)))
      Match(m) == Replace(m, normalize_law_ref_title(SubSeq(line, m.from, m.law_end)))
      Go(mo) == IF mo = None
                THEN Prepend(<<line[i]>>, ReplaceExternal(line, i + 1, link_dir, placeholders))
                ELSE Match(Unwrap(mo))
  IN IF i > Len(line) THEN [text |-> <<>>, placeholders |-> placeholders]
     ELSE Go(RefMatchAt(line, i))

\* the length of a match of 第N+<unit> that starts at s[i], 0 when none
UnitRefLen(s, i, unit) ==
  LET Unit(r) == IF r >= 1 /\ StartsWithAt(s, i + 1 + r, <<unit>>) THEN r + 2 ELSE 0
  IN IF ~StartsWithAt(s, i, <<"dai">>) THEN 0 ELSE Unit(ClassRun(s, i + 1, Numerals))

RECURSIVE ReplaceUnitRefs(_, _, _, _)
\* replace_all of 第N+<unit>: with anchor None the match is written back as it
\* is; with an article unit the anchor is the matched 第N条 itself
ReplaceUnitRefs(s, unit, target, anchor) ==
  LET Link(m) == IF unit = "jou" THEN WikiLink(target, m, m)
                 ELSE IF anchor # None THEN WikiLink(target, Unwrap(anchor), m)
                 ELSE m
      Go(k) == IF k = 0 THEN <<Head(s)>> \o ReplaceUnitRefs(Tail(s), unit, target, anchor)
               ELSE Link(SubSeq(s, 1, k)) \o ReplaceUnitRefs(From(s, k + 1), unit, target, anchor)
  IN IF s = <<>> THEN <<>> ELSE Go(UnitRefLen(s, 1, unit))

RECURSIVE RestorePlaceholders(_, _)
\* for (key, link) in ext_placeholders { replaced = replaced.replace(&key, &link) }
RestorePlaceholders(s, placeholders) ==
  IF placeholders = <<>> THEN s
  ELSE RestorePlaceholders(ReplaceAllStr(s, Head(placeholders).key, Head(placeholders).link),
                           Tail(placeholders))

\* ["前条", "前項", "次条", "同条", "同項"]
AnaphoricTokens == << <<"zen", "jou">>, <<"zen", "kou">>, <<"ji", "jou">>,
                      <<"dou", "jou">>, <<"dou", "kou">> >>

\* a line whose external links are put back before the internal
\* substitutions run: the faulty variant of LinkifyLine
LinkifyLineUnshielded(line, current_law_title, link_dir, last_article_anchor) ==
  LET Local(ext, target) ==
        ReplaceUnitRefs(
          ReplaceUnitRefs(
            ReplaceUnitRefs(RestorePlaceholders(ext.text, ext.placeholders),
                            "jou", target, None),
            "kou", target, last_article_anchor),
          "gou", target, last_article_anchor)
  IN Local(ReplaceExternal(line, 1, link_dir, <<>>),
           obsidian_note_target(link_dir, current_law_title))
\* one plain line of linkify_markdown, with the last article anchor as it is
\* before the line
LinkifyLine(line, current_law_title, link_dir, last_article_anchor) ==
  LET Local(ext, target) ==
        RestorePlaceholders(
          ReplaceUnitRefs(
            ReplaceUnitRefs(
              ReplaceUnitRefs(ext.text, "jou", target, None),
              "kou", target, last_article_anchor),
            "gou", target, last_article_anchor),
          ext.placeholders)
  IN Local(ReplaceExternal(line, 1, link_dir, <<>>),
           obsidian_note_target(link_dir, current_law_title))

\* a check that lets a line with a link through to the substitutions: the
\* faulty variant of KeptAsIs
OnlyHeadingsKept(line) == StartsWith(line, <<"#">>)
\* if line.starts_with('#') || line.contains("[[")
KeptAsIs(line) == StartsWith(line, <<"#">>) \/ Contains(line, <<"[", "[">>)

RECURSIVE LinkifyLines(_, _, _, _)
\* the loop of linkify_markdown over the lines that are left; acc is
\* [output, unresolved, last_article_anchor]
LinkifyLines(ls, current_law_title, link_dir, acc) ==
  LET Push(replaced, found, anchor) ==
        [output |-> acc.output \o replaced \o <<"nl">>,
         unresolved |-> acc.unresolved \o found,
         last_article_anchor |-> IF anchor # None THEN anchor ELSE acc.last_article_anchor]
      \* a heading or a line that holds a link already is pushed as it is
      Verbatim(line) == Push(line, <<>>, extract_heading_anchor(line))
      Plain(replaced) ==
        Push(replaced, SelectSeq(AnaphoricTokens, LAMBDA t : Contains(replaced, t)),
             extract_heading_anchor(replaced))
      Line(line) ==
        IF KeptAsIs(line) THEN Verbatim(line)
        ELSE Plain(LinkifyLine(line, current_law_title, link_dir, acc.last_article_anchor))
  IN IF ls = <<>> THEN acc
     ELSE LinkifyLines(Tail(ls), current_law_title, link_dir, Line(Head(ls)))

\* (linked text, unresolved tokens)
linkify_markdown(markdown, current_law_title, output_dir) ==
  LET Out(r) == <<r.output, r.unresolved>>
  IN Out(LinkifyLines(Lines(markdown), current_law_title, obsidian_dir(output_dir),
                      [output |-> <<>>, unresolved |-> <<>>, last_article_anchor |-> None]))

(***************************************************************************)
(* escape_yaml, LawCandidate::identity_key, parse_law_candidates,           *)
(* parse_law_contents.                                                      *)
(***************************************************************************)
\* s.replace('\\', "\\\\").replace('"', "\\\"")
escape_yaml(s) == ReplaceAllStr(ReplaceAllStr(s, <<"bs">>, <<"bs", "bs">>), <<"dq">>, <<"bs", "dq">>)

\* format!("id:{}", id) / format!("num:{}", num) / format!("title:{}", title)
\* a key that looks at the number before the id: the faulty variant of
\* identity_key
NumberFirstKey(c) ==
  IF c.law_num # None THEN <<"n", "u", "m", ":">> \o Unwrap(c.law_num)
  ELSE IF c.law_id # None THEN <<"i", "d", ":">> \o Unwrap(c.law_id)
  ELSE <<"t", "i", "t", "l", "e", ":">> \o c.law_title
identity_key(c) ==
  IF c.law_id # None THEN <<"i", "d", ":">> \o Unwrap(c.law_id)
  ELSE IF c.law_num # None THEN <<"n", "u", "m", ":">> \o Unwrap(c.law_num)
  ELSE <<"t", "i", "t", "l", "e", ":">> \o c.law_title

\* a LawCandidate (promulgation_date, which is only printed, left out)
Candidate(law_id, law_num, law_title) ==
  [law_id |-> law_id, law_num |-> law_num, law_title |-> law_title]

RECURSIVE ParseCandidates(_, _, _)
\* `laws` are the items of a LawsResponse, [law_id, law_num, law_title, abbrev];
\* `seen` holds the "id|num|title" keys pushed so far
ParseCandidates(laws, seen, out) ==
  LET Push(item, key) ==
        IF key \in seen THEN ParseCandidates(Tail(laws), seen, out)
        ELSE ParseCandidates(Tail(laws), seen \cup {key},
                             Append(out, Candidate(Some(item.law_id), item.law_num,
                                                   item.law_title)))
      One(item) == Push(item, <<item.law_id, UnwrapOr(item.law_num, <<>>), item.law_title>>)
  IN IF laws = <<>> THEN out ELSE One(Head(laws))
parse_law_candidates(laws) == ParseCandidates(laws, {}, <<>>)

\* Result<LawContents>: None is Err
parse_law_contents(v) ==
  LET Contents(markdown) ==
        IF markdown = None THEN None
        ELSE Some([law_id |-> Some(v.law_id), law_num |-> v.law_num,
                   law_title |-> v.law_title, markdown |-> Unwrap(markdown)])
  IN Contents(law_full_text_json_to_markdown(v.law_full_text))

(***************************************************************************)
(* The e-Gov API as the crawl sees it: the statutes it serves.              *)
(***************************************************************************)
JStr(t) == [kind |-> "String", s |-> t]
JArr(items) == [kind |-> "Array", items |-> items]
JObj(tag, children) == [kind |-> "Object", tag |-> tag, children |-> Some(children),
                        values |-> <<>>]
\* {"tag": "Law", "children": [{"tag": "Article", "children": [
\*    {"tag": "ArticleTitle", "children": [title]},
\*    {"tag": "Paragraph", "children": [{"tag": "Sentence", "children": [l]}]}, ...]}]}
LawTree(title, sentences) ==
  JObj("Law", JArr(<<
    JObj("Article", JArr(
      <<JObj("ArticleTitle", JArr(<<JStr(title)>>))>> \o
      [i \in 1..Len(sentences) |->
         JObj("Paragraph", JArr(<<JObj("Sentence", JArr(<<JStr(sentences[i])>>))>>))]))>>))

MinHo == <<"min", "ho">>
KeiHo == <<"kei", "ho">>
ShouHo == <<"shou2", "ho">>
ShinHo == <<"shin", "ho">>

\* the items the API serves (LawsResponseLaw / LawDataResponse), flattened:
\*   民法: 第1条 / 刑法第1条、旧商法第2条 / 前条
\*   刑法: 第1条 / 商法第2条、前条 / 前条
\*   商法: 第2条 / 民法第1条 / 同法第1条商法第2条 / 民法第1条、民法第2条
\*   新法: a document whose text is blank
Registry ==
  << [law_id |-> <<"1">>, law_num |-> Some(<<"ichi", "gou">>), law_title |-> MinHo,
      abbrev |-> None,
      law_full_text |-> LawTree(<<"dai", "1", "jou">>,
        << <<"kei", "ho", "dai", "1", "jou", "ten", "kyuu", "shou2", "ho", "dai", "2", "jou">>,
           <<"zen", "jou">> >>)],
     [law_id |-> <<"2">>, law_num |-> None, law_title |-> KeiHo,
      abbrev |-> Some(<<"kei">>),
      law_full_text |-> LawTree(<<"dai", "1", "jou">>,
        << <<"shou2", "ho", "dai", "2", "jou", "ten", "zen", "jou">>, <<"sp", "zen", "jou", "tab">> >>)],
     [law_id |-> <<"3">>, law_num |-> Some(<<"ni", "gou">>), law_title |-> ShouHo,
      abbrev |-> Some(<<"sp">>),
      law_full_text |-> LawTree(<<"dai", "2", "jou">>,
        << <<"min", "ho", "dai", "1", "jou">>,
           <<"dou", "ho", "dai", "1", "jou", "shou2", "ho", "dai", "2", "jou">>,
           <<"min", "ho", "dai", "1", "jou", "ten", "min", "ho", "dai", "2", "jou">> >>)],
     [law_id |-> <<"4">>, law_num |-> None, law_title |-> ShinHo,
      abbrev |-> None,
      law_full_text |-> JObj("Law", JArr(<<JStr(<<"sp", "tab">>), [kind |-> "Null"]>>))] >>


(***************************************************************************)
(* The name dictionary.                                                     *)
(***************************************************************************)
DictEntry(law_id, law_num, law_title) ==
  [law_id |-> law_id, law_num |-> law_num, law_title |-> law_title]

\* Option<&LawDictEntry>
lookup_dictionary(dict, title) ==
  LET Get(key) == IF key \in DOMAIN dict THEN Some(dict[key]) ELSE None
  IN Get(UnwrapOr(normalize_law_ref_title(title), title))

\* an insertion that overwrites: the faulty variant of InsertIfAbsent
InsertAlways(d, key, entry) ==
  [dictionary |-> (key :> entry) @@ d.dictionary, dictionary_dirty |-> TRUE]
\* if dictionary.get(&key).is_none() { dictionary.insert(key, entry); changed = true }
\* on d = [dictionary, dictionary_dirty]
InsertIfAbsent(d, key, entry) ==
  IF key \in DOMAIN d.dictionary THEN d
  ELSE [dictionary |-> d.dictionary @@ (key :> entry), dictionary_dirty |-> TRUE]

\* one turn of `for alias in [query, c.law_title.as_str()]`
RegisterAlias(d, alias, entry) ==
  LET Register(normalized) ==
        IF normalized = None THEN d ELSE InsertIfAbsent(d, Unwrap(normalized), entry)
  IN Register(normalize_law_ref_title(alias))

\* on and to [dictionary, dictionary_dirty]
register_candidate_aliases(d, query, c) ==
  LET Both(entry) == RegisterAlias(RegisterAlias(d, query, entry), c.law_title, entry)
  IN Both(DictEntry(c.law_id, c.law_num, c.law_title))

register_law_contents(d, law) ==
  RegisterAlias(d, law.law_title, DictEntry(law.law_id, law.law_num, law.law_title))

\* one turn of `for item in page.laws` of refresh_dictionary_from_api, on
\* d = [dictionary, dictionary_dirty], the flag standing for `changed`
RefreshItem(d, item) ==
  LET Abbrev(d2, entry) ==
        IF item.abbrev # None /\ Trim(Unwrap(item.abbrev)) # <<>>
        THEN InsertIfAbsent(d2, Unwrap(item.abbrev), entry) ELSE d2
      Num(d1, entry) ==
        Abbrev(IF item.law_num # None THEN InsertIfAbsent(d1, Unwrap(item.law_num), entry)
               ELSE d1, entry)
      Title(entry) == Num(RegisterAlias(d, item.law_title, entry), entry)
  IN Title(DictEntry(Some(item.law_id), item.law_num, item.law_title))

RECURSIVE RefreshItems(_, _)
RefreshItems(d, laws) ==
  IF laws = <<>> THEN d ELSE RefreshItems(RefreshItem(d, Head(laws)), Tail(laws))

RECURSIVE RefreshPages(_, _)
\* the loop over the pages; `pages` are the answers of list_laws_paged at
\* offset 0, 100, ..., each [ok |-> FALSE] or [ok |-> TRUE, laws |-> items];
\* past the last of them the API answers an empty page
RefreshPages(d, pages) ==
  IF pages = <<>> THEN [ok |-> TRUE, d |-> d]
  ELSE IF ~Head(pages).ok THEN [ok |-> FALSE, d |-> d]
  ELSE IF Head(pages).laws = <<>> THEN [ok |-> TRUE, d |-> d]
  ELSE RefreshPages(RefreshItems(d, Head(pages).laws), Tail(pages))

\* the result is [ok, dict, changed]; dict is the caller's dictionary after
\* the call, also when the call ends in an error
refresh_dictionary_from_api(dict, pages) ==
  LET Result(r) == [ok |-> r.ok, dict |-> r.d.dictionary, changed |-> r.d.dictionary_dirty]
  IN Result(RefreshPages([dictionary |-> dict, dictionary_dirty |-> FALSE], pages))

(***************************************************************************)
(* resolve_candidate.  `search` is what search_laws would get from the API: *)
(* [ok |-> FALSE], or [ok |-> TRUE, laws |-> the items]; `input` is the     *)
(* line read from stdin, parsed: None when it is no number.                 *)
(* The result is [ok, candidate, d, searched], d the dictionary and its     *)
(* dirty flag after the call.                                               *)
(***************************************************************************)
ResolveErr(d, searched) == [ok |-> FALSE, candidate |-> None, d |-> d, searched |-> searched]
ResolveOk(d, c, searched) == [ok |-> TRUE, candidate |-> Some(c), d |-> d, searched |-> searched]

\* a resolution that settles for the first of several candidates: the faulty
\* variant of resolve_candidate
ResolveFirstCandidate(d, non_interactive, title, search, input) ==
  LET Confirm(c) == ResolveOk(register_candidate_aliases(d, title, c), c, TRUE)
      Choose(candidates) ==
        IF candidates = <<>> THEN ResolveErr(d, TRUE) ELSE Confirm(candidates[1])
      Known(entry) == ResolveOk(d, Candidate(entry.law_id, entry.law_num, entry.law_title), FALSE)
      Lookup(entry) ==
        IF entry # None THEN Known(Unwrap(entry))
        ELSE IF ~search.ok THEN ResolveErr(d, TRUE)
        ELSE Choose(parse_law_candidates(search.laws))
  IN Lookup(lookup_dictionary(d.dictionary, title))
resolve_candidate(d, non_interactive, title, search, input) ==
  LET Confirm(c) == ResolveOk(register_candidate_aliases(d, title, c), c, TRUE)
      Exact(exact) == IF Len(exact) = 1 THEN Confirm(exact[1]) ELSE ResolveErr(d, TRUE)
      Choose(candidates) ==
        IF candidates = <<>> THEN ResolveErr(d, TRUE)
        ELSE IF Len(candidates) = 1 THEN Confirm(candidates[1])
        ELSE IF non_interactive
        THEN Exact(SelectSeq(candidates, LAMBDA c : c.law_title = title))
        ELSE IF input = None THEN ResolveErr(d, TRUE)
        ELSE IF Unwrap(input) = 0 \/ Unwrap(input) > Len(candidates) THEN ResolveErr(d, TRUE)
        ELSE Confirm(candidates[Unwrap(input)])
      Known(entry) == ResolveOk(d, Candidate(entry.law_id, entry.law_num, entry.law_title), FALSE)
      Lookup(entry) ==
        IF entry # None THEN Known(Unwrap(entry))
        ELSE IF ~search.ok THEN ResolveErr(d, TRUE)
        ELSE Choose(parse_law_candidates(search.laws))
  IN Lookup(lookup_dictionary(d.dictionary, title))

(***************************************************************************)
(* fetch_law_contents.  `response` is what get_json would get from the API: *)
(* [ok |-> FALSE], or [ok |-> TRUE, data |-> the LawDataResponse].          *)
(* The result is Option<LawContents>, None for Err.                         *)
(***************************************************************************)
\* candidate.law_id.as_deref().or(candidate.law_num.as_deref())
IdOrNum(candidate) == IF candidate.law_id # None THEN candidate.law_id ELSE candidate.law_num

fetch_law_contents(candidate, response) ==
  IF IdOrNum(candidate) = None THEN None
  ELSE IF ~response.ok THEN None
  ELSE parse_law_contents(response.data)

(***************************************************************************)
(* write_law_note.  `fs` is the output directory: a function from the file  *)
(* names in it to the notes' contents; write_ok tells whether fs::write     *)
(* succeeds.  The result is [ok, fs, d, unresolved_refs, file].             *)
(***************************************************************************)
\* file names end in ".md"
NoteFile(law_title) == sanitize_filename(law_title) \o <<".", "m", "d">>

\* the front matter's law_title, law_id, law_num and depth, and the body
\* (source_api and has_original_xml are constants, fetched_at is the clock)
NoteContents(law, depth, markdown) ==
  [law_title |-> escape_yaml(law.law_title),
   law_id |-> escape_yaml(UnwrapOr(law.law_id, <<>>)),
   law_num |-> escape_yaml(UnwrapOr(law.law_num, <<>>)),
   depth |-> depth,
   body |-> TrimEndSet(markdown, {"nl"}) \o <<"nl">>]

\* a note written whether or not the file exists: the faulty variant of
\* write_law_note
WriteOverExisting(fs, d, unresolved_refs, no_overwrite, output_dir, law, depth, write_ok) ==
  LET Events(tokens) == [i \in 1..Len(tokens) |->
                           [source_law |-> law.law_title, alias |-> tokens[i],
                            sample_context |-> None]]
      Write(file, linked) ==
        IF ~write_ok
        THEN [ok |-> FALSE, fs |-> fs, d |-> d,
              unresolved_refs |-> unresolved_refs \o Events(linked[2]), file |-> file]
        ELSE [ok |-> TRUE,
              fs |-> (file :> NoteContents(law, depth, linked[1])) @@ fs,
              d |-> register_law_contents(d, law),
              unresolved_refs |-> unresolved_refs \o Events(linked[2]),
              file |-> file]
  IN Write(NoteFile(law.law_title),
           linkify_markdown(ensure_article_headings(law.markdown), law.law_title, output_dir))
write_law_note(fs, d, unresolved_refs, no_overwrite, output_dir, law, depth, write_ok) ==
  LET Events(tokens) == [i \in 1..Len(tokens) |->
                           [source_law |-> law.law_title, alias |-> tokens[i],
                            sample_context |-> None]]
      Write(file, linked) ==
        IF ~write_ok
        THEN [ok |-> FALSE, fs |-> fs, d |-> d,
              unresolved_refs |-> unresolved_refs \o Events(linked[2]), file |-> file]
        ELSE [ok |-> TRUE,
              fs |-> (file :> NoteContents(law, depth, linked[1])) @@ fs,
              d |-> register_law_contents(d, law),
              unresolved_refs |-> unresolved_refs \o Events(linked[2]),
              file |-> file]
      Note(file) ==
        IF no_overwrite /\ file \in DOMAIN fs
        THEN [ok |-> FALSE, fs |-> fs, d |-> d, unresolved_refs |-> unresolved_refs,
              file |-> file]
        ELSE Write(file, linkify_markdown(ensure_article_headings(law.markdown),
                                          law.law_title, output_dir))
  IN Note(NoteFile(law.law_title))

(***************************************************************************)
(* save_unresolved_refs and save_dictionary.  A file is Option<contents>:   *)
(* None when it does not exist.                                             *)
(***************************************************************************)
\* Some("参照先法令名の解決失敗")
ResolveFailedContext == Some("resolve failed")

\* a merge that never looks for the pair: the faulty variant of MergeEvents
AppendEvents(items, events, now) ==
  items \o [i \in 1..Len(events) |->
              [source_law |-> events[i].source_law, alias |-> events[i].alias,
               first_seen_at |-> now, last_seen_at |-> now, count |-> 1,
               sample_context |-> events[i].sample_context, status |-> "pending"]]
RECURSIVE MergeEvents(_, _, _)
\* for event in &self.unresolved_refs { ... } on store.items
MergeEvents(items, events, now) ==
  LET Bump(existing, event) ==
        [existing EXCEPT
           !.count = @ + 1,
           !.last_seen_at = now,
           !.sample_context =
              IF existing.sample_context = None /\ event.sample_context # None
              THEN event.sample_context ELSE @]
      Fresh(event) == [source_law |-> event.source_law, alias |-> event.alias,
                       first_seen_at |-> now, last_seen_at |-> now, count |-> 1,
                       sample_context |-> event.sample_context,
                       status |-> "pending"]
      Existing(i, event) == [items EXCEPT ![i] = Bump(items[i], event)]
      Merge(event, hits) ==
        IF hits # {} THEN MergeEvents(Existing(MinOf(hits), event), Tail(events), now)
        ELSE MergeEvents(Append(items, Fresh(event)), Tail(events), now)
      One(event) ==
        Merge(event, {i \in 1..Len(items) : /\ items[i].source_law = event.source_law
                                            /\ items[i].alias = event.alias})
  IN IF events = <<>> THEN items ELSE One(Head(events))

\* load_unresolved_store: a missing file is an empty store
load_unresolved_store(file) == IF file = None THEN <<>> ELSE Unwrap(file)

\* load_ok: the store file can be read and parsed; write_ok: it can be
\* written.  The result is [ok, file, written].
save_unresolved_refs(file, unresolved_refs, now, load_ok, write_ok) ==
  IF unresolved_refs = <<>> THEN [ok |-> TRUE, file |-> file, written |-> FALSE]
  ELSE IF ~load_ok \/ ~write_ok THEN [ok |-> FALSE, file |-> file, written |-> FALSE]
  ELSE [ok |-> TRUE,
        file |-> Some(MergeEvents(load_unresolved_store(file), unresolved_refs, now)),
        written |-> TRUE]

\* a save that does not look at the dirty flag: the faulty variant of
\* save_dictionary
SaveRegardless(file, d, write_ok) ==
  IF ~write_ok THEN [ok |-> FALSE, file |-> file, d |-> d, written |-> FALSE]
  ELSE [ok |-> TRUE, file |-> Some(d.dictionary),
        d |-> [d EXCEPT !.dictionary_dirty = FALSE], written |-> TRUE]
\* on d = [dictionary, dictionary_dirty]; the result is [ok, file, d, written],
\* written telling whether fs::write was called and succeeded.  (A failed
\* fs::write is taken to leave the file as it was.)
save_dictionary(file, d, write_ok) ==
  IF ~d.dictionary_dirty THEN [ok |-> TRUE, file |-> file, d |-> d, written |-> FALSE]
  ELSE IF ~write_ok THEN [ok |-> FALSE, file |-> file, d |-> d, written |-> FALSE]
  ELSE [ok |-> TRUE, file |-> Some(d.dictionary),
        d |-> [d EXCEPT !.dictionary_dirty = FALSE], written |-> TRUE]


(***************************************************************************)
(* Processor::run as a state machine.                                       *)
(***************************************************************************)
VARIABLES
  pc,                \* "start", "loop" (at the head of the while loop), "ok", "err"
  queue,             \* VecDeque<(title, depth, source_law)>
  visited,           \* HashSet of identity keys
  dictionary,        \* Processor.dictionary
  dictionary_dirty,  \* Processor.dictionary_dirty
  unresolved_refs,   \* Processor.unresolved_refs
  max_depth, no_overwrite, non_interactive,
  notes,             \* the files of output_dir
  dict_file,         \* the file at dict_path
  unresolved_file,   \* the file at unresolved_path
  log                \* history: what the run did, in order

vars == <<pc, queue, visited, dictionary, dictionary_dirty, unresolved_refs, max_depth,
          no_overwrite, non_interactive, notes, dict_file, unresolved_file, log>>
config == <<max_depth, no_overwrite, non_interactive>>

\* the largest max_depth of the model
MaxDepthBound == 2
\* the largest time of the model's clock; the loaded store was written at 1
MaxClock == 3

\* Cli.output_dir
OutputDir == <<".", "/", "L">>
RootTitles == {MinHo, <<"kyuu", "min", "ho">>}

RegistryEntry(i) == DictEntry(Some(Registry[i].law_id), Registry[i].law_num, Registry[i].law_title)
\* the dictionaries load_dictionary finds: none; one built by an earlier
\* refresh; one edited by hand, with an entry that has neither id nor number
\* and 商法 as an alias of 民法
LoadedDictionaries ==
  { <<>>,
    (MinHo :> RegistryEntry(1)) @@ (<<"ichi", "gou">> :> RegistryEntry(1)),
    (KeiHo :> DictEntry(None, None, KeiHo)) @@ (ShouHo :> RegistryEntry(1)) }
\* the store at unresolved_path: one triaged record, written at time 1
LoadedStore ==
  Some(<< [source_law |-> KeiHo, alias |-> <<"zen", "jou">>, first_seen_at |-> 1,
           last_seen_at |-> 1, count |-> 1, sample_context |-> None,
           status |-> "done"] >>)
\* the note of 民法 that an earlier run left in output_dir
OldNote == [law_title |-> MinHo, law_id |-> <<"1">>, law_num |-> <<>>, depth |-> 1,
            body |-> <<"nl">>]
ExistingNotes == (NoteFile(MinHo) :> OldNote)

\* what the API answers to a search: an error, or a list of items
SearchOutcomes ==
  {[ok |-> FALSE]} \cup
  {[ok |-> TRUE, laws |-> l] :
     l \in {<<>>} \cup {<<Registry[i]>> : i \in DOMAIN Registry}
           \cup {<<Registry[1], Registry[1]>>, <<Registry[1], Registry[2]>>,
                 <<Registry[3], Registry[2]>>}}
NoSearch == [ok |-> FALSE]
\* what the API answers to a fetch of id_or_num: an error, or the statute
\* that has this id or number
FetchOutcomes(id_or_num) ==
  {[ok |-> FALSE]} \cup
  {[ok |-> TRUE, data |-> Registry[i]] :
     i \in {j \in DOMAIN Registry : \/ Some(Registry[j].law_id) = id_or_num
                                    \/ Registry[j].law_num = id_or_num}}
\* the lines the user can type at the prompt, parsed
UserInputs == {None, Some(0), Some(1), Some(2), Some(3)}

\* main: load_dictionary, then Processor { dictionary, dictionary_dirty: false,
\* unresolved_refs: Vec::new(), .. }
Init ==
  /\ pc = "start"
  /\ queue = <<>>
  /\ visited = {}
  /\ dictionary \in LoadedDictionaries
  /\ dictionary_dirty = FALSE
  /\ unresolved_refs = <<>>
  /\ max_depth \in 0..MaxDepthBound
  /\ no_overwrite \in BOOLEAN
  /\ non_interactive \in BOOLEAN
  /\ notes = ExistingNotes
  /\ dict_file = IF dictionary = <<>> THEN None ELSE Some(dictionary)
  /\ unresolved_file = LoadedStore
  /\ log = <<[op |-> "load", dictionary |-> dictionary]>>

\* Processor.dictionary with its dirty flag, as the operators take them
Dict == [dictionary |-> dictionary, dictionary_dirty |-> dictionary_dirty]

\* the answers that make a difference: search_laws is called only on a
\* dictionary miss, stdin is read only for two or more candidates in
\* interactive mode
SearchChoices(title) ==
  IF lookup_dictionary(dictionary, title) # None THEN {NoSearch} ELSE SearchOutcomes
InputChoices(search) ==
  IF ~non_interactive /\ search.ok /\ Len(parse_law_candidates(search.laws)) >= 2
  THEN UserInputs ELSE {None}
FetchChoices(candidate) ==
  IF IdOrNum(candidate) = None THEN {[ok |-> FALSE]} ELSE FetchOutcomes(IdOrNum(candidate))
WriteChoices(law) ==
  IF no_overwrite /\ NoteFile(law.law_title) \in DOMAIN notes THEN {TRUE} ELSE BOOLEAN

\* the log of one turn of the loop up to the end of its resolve_candidate
Dequeued(entry, r, search) ==
  log \o <<[op |-> "dequeue", entry |-> entry]>>
      \o (IF r.searched THEN <<[op |-> "search", entry |-> entry, ok |-> search.ok]>>
          ELSE <<>>)
      \o <<[op |-> "resolve", entry |-> entry, ok |-> r.ok]>>
Fetched(entry, candidate, contents) ==
  <<[op |-> "fetch", entry |-> entry, key |-> identity_key(candidate), ok |-> contents # None]>>
Written(entry, candidate, file) ==
  <<[op |-> "write", entry |-> entry, key |-> identity_key(candidate), file |-> file]>>
Returned(ok) == <<[op |-> "return", ok |-> ok]>>

\* a loop that never ends: the faulty variant of QueueDrained
NeverDrained == FALSE
\* while let Some(..) = queue.pop_front(): the loop ends when the queue is empty
QueueDrained == queue = <<>>
AtLoopHead == pc = "loop" /\ queue # <<>>

\* a depth check that is off by one: the faulty variant of TooDeep
DeeperThanBound(depth) == depth > max_depth + 1
\* if depth > self.max_depth
TooDeep(depth) == depth > max_depth
\* a visited-set that forgets: the faulty variant of AlreadyVisited
NeverVisited(visit_key) == FALSE
\* !visited.insert(visit_key)
AlreadyVisited(visit_key) == visit_key \in visited
\* an event that names the referenced statute as its own source: the faulty
\* variant of UnresolvedEvent
MisattributedEvent(entry) ==
  [source_law |-> entry.title, alias |-> entry.title,
   sample_context |-> ResolveFailedContext]
\* UnresolvedRef { source_law, alias: title, sample_context: Some(..) }
UnresolvedEvent(entry) ==
  [source_law |-> entry.source_law, alias |-> entry.title,
   sample_context |-> ResolveFailedContext]

\* fs::create_dir_all(&self.output_dir)? and the seeding of the queue
Start ==
  /\ pc = "start"
  /\ \E root_title \in RootTitles :
       queue' = <<[title |-> root_title, depth |-> 0, source_law |-> root_title]>>
  /\ pc' = "loop"
  /\ UNCHANGED <<visited, dictionary, dictionary_dirty, unresolved_refs, config, notes,
                 dict_file, unresolved_file, log>>

StartFail ==
  /\ pc = "start"
  /\ pc' = "err"
  /\ log' = log \o Returned(FALSE)
  /\ UNCHANGED <<queue, visited, dictionary, dictionary_dirty, unresolved_refs, config,
                 notes, dict_file, unresolved_file>>

\* if depth > self.max_depth { continue; }
DropTooDeep ==
  /\ AtLoopHead
  /\ TooDeep(Head(queue).depth)
  /\ queue' = Tail(queue)
  /\ log' = Append(log, [op |-> "drop", entry |-> Head(queue)])
  /\ UNCHANGED <<pc, visited, dictionary, dictionary_dirty, unresolved_refs, config, notes,
                 dict_file, unresolved_file>>

\* what resolve_candidate can return for the entry at the head of the queue,
\* with the API's answer
Resolutions ==
  IF queue = <<>> THEN {}
  ELSE UNION {{<<search, resolve_candidate(Dict, non_interactive, Head(queue).title,
                                           search, input)>> :
                 input \in InputChoices(search)} :
                search \in SearchChoices(Head(queue).title)}

\* Err(e) if depth == 0 => return Err(e)
ResolveFailRoot ==
  /\ AtLoopHead
  /\ ~TooDeep(Head(queue).depth)
  /\ \E entry \in {Head(queue)}, sr \in Resolutions :
       /\ ~sr[2].ok
       /\ entry.depth = 0
       /\ pc' = "err"
       /\ queue' = Tail(queue)
       /\ log' = Dequeued(entry, sr[2], sr[1]) \o Returned(FALSE)
  /\ UNCHANGED <<visited, dictionary, dictionary_dirty, unresolved_refs, config, notes,
                 dict_file, unresolved_file>>

\* Err(e) below the root: push an UnresolvedRef and continue
ResolveFailDeep ==
  /\ AtLoopHead
  /\ ~TooDeep(Head(queue).depth)
  /\ \E entry \in {Head(queue)}, sr \in Resolutions :
       /\ ~sr[2].ok
       /\ entry.depth # 0
       /\ unresolved_refs' = Append(unresolved_refs, UnresolvedEvent(entry))
       /\ queue' = Tail(queue)
       /\ log' = Dequeued(entry, sr[2], sr[1])
  /\ UNCHANGED <<pc, visited, dictionary, dictionary_dirty, config, notes, dict_file,
                 unresolved_file>>

\* if !visited.insert(visit_key) { continue; }
SkipVisited ==
  /\ AtLoopHead
  /\ ~TooDeep(Head(queue).depth)
  /\ \E entry \in {Head(queue)}, sr \in Resolutions :
       /\ sr[2].ok
       /\ AlreadyVisited(identity_key(Unwrap(sr[2].candidate)))
       /\ dictionary' = sr[2].d.dictionary
       /\ dictionary_dirty' = sr[2].d.dictionary_dirty
       /\ queue' = Tail(queue)
       /\ log' = Dequeued(entry, sr[2], sr[1])
                   \o <<[op |-> "skip", entry |-> entry,
                         key |-> identity_key(Unwrap(sr[2].candidate))]>>
  /\ UNCHANGED <<pc, visited, unresolved_refs, config, notes, dict_file, unresolved_file>>

\* what fetch_law_contents can return for the candidate
Fetches(candidate) ==
  {fetch_law_contents(candidate, response) : response \in FetchChoices(candidate)}

\* let contents = self.api.fetch_law_contents(&candidate)?; returning Err
FetchFail ==
  /\ AtLoopHead
  /\ ~TooDeep(Head(queue).depth)
  /\ \E entry \in {Head(queue)}, sr \in Resolutions :
       /\ sr[2].ok
       /\ \E candidate \in {Unwrap(sr[2].candidate)} :
            /\ ~AlreadyVisited(identity_key(candidate))
            /\ None \in Fetches(candidate)
            /\ log' = Dequeued(entry, sr[2], sr[1]) \o Fetched(entry, candidate, None)
                        \o Returned(FALSE)
            /\ visited' = visited \cup {identity_key(candidate)}
       /\ dictionary' = sr[2].d.dictionary
       /\ dictionary_dirty' = sr[2].d.dictionary_dirty
       /\ queue' = Tail(queue)
       /\ pc' = "err"
  /\ UNCHANGED <<unresolved_refs, config, notes, dict_file, unresolved_file>>

\* what write_law_note can return for the fetched statute
Writes(d, law, depth) ==
  {write_law_note(notes, d, unresolved_refs, no_overwrite, OutputDir, law, depth, write_ok) :
     write_ok \in WriteChoices(law)}

\* self.write_law_note(&contents, depth)?; returning Err
WriteNoteFail ==
  /\ AtLoopHead
  /\ ~TooDeep(Head(queue).depth)
  /\ \E entry \in {Head(queue)}, sr \in Resolutions :
       /\ sr[2].ok
       /\ \E candidate \in {Unwrap(sr[2].candidate)} :
            /\ ~AlreadyVisited(identity_key(candidate))
            /\ \E contents \in Fetches(candidate) \ {None} :
                 \E w \in Writes(sr[2].d, Unwrap(contents), entry.depth) :
                   /\ ~w.ok
                   /\ unresolved_refs' = w.unresolved_refs
                   /\ log' = Dequeued(entry, sr[2], sr[1])
                               \o Fetched(entry, candidate, contents)
                               \o Returned(FALSE)
            /\ visited' = visited \cup {identity_key(candidate)}
       /\ dictionary' = sr[2].d.dictionary
       /\ dictionary_dirty' = sr[2].d.dictionary_dirty
       /\ queue' = Tail(queue)
       /\ pc' = "err"
  /\ UNCHANGED <<config, notes, dict_file, unresolved_file>>

\* an entry for every citation of the body, repeated ones too: the faulty
\* variant of Enqueued
EnqueuedPerCitation(law, dict, depth) ==
  LET Entries(ms, order) ==
        [i \in 1..Len(ms) |->
           [title |-> resolve_law_title_from_fragment(
                        SubSeq(law.markdown, ms[i].from, ms[i].law_end), dict, order),
            depth |-> depth + 1, source_law |-> law.law_title]]
      Resolved(es) == SelectSeq(es, LAMBDA e : e.title # None)
      Titled(es) == [i \in 1..Len(es) |-> [es[i] EXCEPT !.title = Unwrap(@)]]
  IN {Titled(Resolved(Entries(RefMatches(law.markdown, 1), order))) :
        order \in KeyOrders(law.markdown, dict)}
\* for law_ref in refs { queue.push_back((law_ref.law_title, depth + 1, law_ref.source_law)) }
\* for every order in which the HashSet can hand out the references
Enqueued(law, dict, depth) ==
  UNION {{[i \in 1..Len(refs) |->
             [title |-> refs[i].law_title, depth |-> depth + 1,
              source_law |-> refs[i].source_law]] :
            refs \in Perms(extract_external_references(law.markdown, dict, law.law_title,
                                                       order))} :
           order \in KeyOrders(law.markdown, dict)}

\* a queue that is a stack: the faulty variant of PushBack
PushFront(q, pushed) == pushed \o q
\* queue.push_back(..) for each of the entries, in their order
PushBack(q, pushed) == q \o pushed

\* a turn of the loop that fetches the statute, writes its note and enqueues
\* the references of its body
VisitStatute ==
  /\ AtLoopHead
  /\ ~TooDeep(Head(queue).depth)
  /\ \E entry \in {Head(queue)}, sr \in Resolutions :
       /\ sr[2].ok
       /\ \E candidate \in {Unwrap(sr[2].candidate)} :
            /\ ~AlreadyVisited(identity_key(candidate))
            /\ \E contents \in Fetches(candidate) \ {None} :
                 \E w \in Writes(sr[2].d, Unwrap(contents), entry.depth) :
                   /\ w.ok
                   /\ notes' = w.fs
                   /\ dictionary' = w.d.dictionary
                   /\ dictionary_dirty' = w.d.dictionary_dirty
                   /\ unresolved_refs' = w.unresolved_refs
                   /\ \E pushed \in Enqueued(Unwrap(contents), w.d.dictionary, entry.depth) :
                        queue' = PushBack(Tail(queue), pushed)
                   /\ log' = Dequeued(entry, sr[2], sr[1])
                               \o Fetched(entry, candidate, contents)
                               \o Written(entry, candidate, w.file)
            /\ visited' = visited \cup {identity_key(candidate)}
  /\ UNCHANGED <<pc, config, dict_file, unresolved_file>>

\* the answers that make a difference at the end of the run
StoreChoices == IF unresolved_refs = <<>> THEN {TRUE} ELSE BOOLEAN
ClockChoices == IF unresolved_refs = <<>> THEN {MaxClock} ELSE 2..MaxClock
DictWriteChoices == IF dictionary_dirty THEN BOOLEAN ELSE {TRUE}

\* what the two saves at the end of run can return
Saves ==
  {<<save_unresolved_refs(unresolved_file, unresolved_refs, now, store_ok, store_ok),
     save_dictionary(dict_file, Dict, dict_ok)>> :
     now \in ClockChoices, store_ok \in StoreChoices, dict_ok \in DictWriteChoices}
Saved(s) ==
  (IF s[1].written THEN <<[op |-> "save_unresolved"]>> ELSE <<>>)
  \o (IF s[1].ok /\ s[2].written THEN <<[op |-> "save_dictionary"]>> ELSE <<>>)

\* self.save_unresolved_refs()?; self.save_dictionary()?; Ok(())
Finish ==
  /\ pc = "loop"
  /\ QueueDrained
  /\ \E s \in Saves :
       /\ s[1].ok /\ s[2].ok
       /\ unresolved_file' = s[1].file
       /\ dict_file' = s[2].file
       /\ dictionary_dirty' = s[2].d.dictionary_dirty
       /\ log' = log \o Saved(s) \o Returned(TRUE)
  /\ pc' = "ok"
  /\ UNCHANGED <<queue, visited, dictionary, unresolved_refs, config, notes>>

\* a dictionary saved although the store was not: the faulty variant of
\* DictionaryAfter
DictionaryRegardless(s) == s[2].file
\* self.save_unresolved_refs()?; comes first: the dictionary file is the one
\* save_dictionary leaves only if the store was saved
DictionaryAfter(s) == IF s[1].ok THEN s[2].file ELSE dict_file

\* save_unresolved_refs or save_dictionary returning Err
FinishFail ==
  /\ pc = "loop"
  /\ QueueDrained
  /\ \E s \in Saves :
       /\ ~s[1].ok \/ ~s[2].ok
       /\ unresolved_file' = s[1].file
       /\ dict_file' = DictionaryAfter(s)
       /\ log' = log \o Saved(s) \o Returned(FALSE)
  /\ pc' = "err"
  /\ UNCHANGED <<queue, visited, dictionary, dictionary_dirty, unresolved_refs, config, notes>>

Next ==
  \/ Start
  \/ StartFail
  \/ DropTooDeep
  \/ ResolveFailRoot
  \/ ResolveFailDeep
  \/ SkipVisited
  \/ FetchFail
  \/ WriteNoteFail
  \/ VisitStatute
  \/ Finish
  \/ FinishFail

Spec == Init /\ [][Next]_vars

\* ENABLED <<Next>>_vars written out from the guards: run has a step to take
\* until it has returned (a turn of the loop while the queue holds an entry,
\* the saves once it is drained)
NextEnabled == pc = "start" \/ (pc = "loop" /\ (queue # <<>> \/ QueueDrained))
\* Weak fairness of Next, WF_vars(Next), with its ENABLED written out as
\* NextEnabled: the loop takes its next turn, since nothing in run waits for
\* anything but the API calls and the prompt, which return.
FairSpec == Spec /\ ([]<>~NextEnabled \/ []<><<Next>>_vars)

(***************************************************************************)
(* Processor::run on a dictionary file that names 民法 by its number alone,  *)
(* under its title or under the alias 商法: law_id is an Option of          *)
(* LawDictEntry, and an entry written by hand or by another tool may lack   *)
(* it.                                                                      *)
(***************************************************************************)
NumberedDictionaries ==
  { (key :> DictEntry(None, Registry[1].law_num, MinHo)) : key \in {MinHo, ShouHo} }

InitNumbered ==
  /\ pc = "start"
  /\ queue = <<>>
  /\ visited = {}
  /\ dictionary \in NumberedDictionaries
  /\ dictionary_dirty = FALSE
  /\ unresolved_refs = <<>>
  /\ max_depth \in 0..MaxDepthBound
  /\ no_overwrite \in BOOLEAN
  /\ non_interactive \in BOOLEAN
  /\ notes = ExistingNotes
  /\ dict_file = Some(dictionary)
  /\ unresolved_file = LoadedStore
  /\ log = <<[op |-> "load", dictionary |-> dictionary]>>

SpecNumbered == InitNumbered /\ [][Next]_vars

(***************************************************************************)
(* The name dictionary under its three writers, called in any order:        *)
(* register_candidate_aliases, register_law_contents and main's refresh.    *)
(***************************************************************************)
\* the titles searched for
DictQueries == RootTitles \cup {KeiHo, <<"dou", "ho">>}
\* what list_laws_paged serves: everything on one page; two pages; a page and
\* then an error; nothing
Listings ==
  { <<[ok |-> TRUE, laws |-> Registry]>>,
    <<[ok |-> TRUE, laws |-> <<Registry[2], Registry[1]>>],
      [ok |-> TRUE, laws |-> <<Registry[3]>>]>>,
    <<[ok |-> TRUE, laws |-> <<Registry[3]>>], [ok |-> FALSE]>>,
    <<[ok |-> FALSE]>>,
    <<>> }

InitDict ==
  /\ pc = "dict"
  /\ queue = <<>>
  /\ visited = {}
  /\ dictionary \in LoadedDictionaries
  /\ dictionary_dirty = FALSE
  /\ unresolved_refs = <<>>
  /\ max_depth = 0
  /\ no_overwrite = FALSE
  /\ non_interactive = FALSE
  /\ notes = ExistingNotes
  /\ dict_file = IF dictionary = <<>> THEN None ELSE Some(dictionary)
  /\ unresolved_file = LoadedStore
  /\ log = <<>>

\* self.register_candidate_aliases(title, &c) for a candidate of a search
RegisterCandidate ==
  /\ pc = "dict"
  /\ \E query \in DictQueries, i \in DOMAIN Registry :
       \E d \in {register_candidate_aliases(
                   Dict, query, parse_law_candidates(<<Registry[i]>>)[1])} :
         /\ dictionary' = d.dictionary
         /\ dictionary_dirty' = d.dictionary_dirty
  /\ UNCHANGED <<pc, queue, visited, unresolved_refs, config, notes, dict_file,
                 unresolved_file, log>>

\* self.register_law_contents(law) for a fetched statute
RegisterContents ==
  /\ pc = "dict"
  /\ \E i \in DOMAIN Registry :
       \E law \in {parse_law_contents(Registry[i])} \ {None} :
         \E d \in {register_law_contents(Dict, Unwrap(law))} :
           /\ dictionary' = d.dictionary
           /\ dictionary_dirty' = d.dictionary_dirty
  /\ UNCHANGED <<pc, queue, visited, unresolved_refs, config, notes, dict_file,
                 unresolved_file, log>>

\* main: refresh_dictionary_from_api(&api, &mut dictionary)?, then the
\* dictionary file is written if changed (--refresh-dictionary)
Refresh ==
  /\ pc = "dict"
  /\ \E pages \in Listings :
       \E r \in {refresh_dictionary_from_api(dictionary, pages)} :
         /\ dictionary' = r.dict
         /\ pc' = IF r.ok THEN "dict" ELSE "err"
         /\ dict_file' = IF r.ok /\ r.changed THEN Some(r.dict) ELSE dict_file
  /\ UNCHANGED <<queue, visited, dictionary_dirty, unresolved_refs, config, notes,
                 unresolved_file, log>>

NextDict ==
  \/ RegisterCandidate
  \/ RegisterContents
  \/ Refresh

SpecDict == InitDict /\ [][NextDict]_vars

(***************************************************************************)
(* main with --refresh-dictionary or --build-dictionary, a step for every   *)
(* page that refresh_dictionary_from_api requests.  pc is the record        *)
(* [at, build_dictionary, offset, changed]: at is "main" before the         *)
(* refresh, "refresh" at the head of its loop, "done" past main's write of  *)
(* the dictionary file, "err" when main has returned an error.              *)
(***************************************************************************)
\* let limit = 100usize
PageLimit == 100
\* the largest number of pages with items that the API serves
MaxPages == 2
\* the pages with items that list_laws_paged can answer with
Pages == {Registry, <<Registry[2], Registry[1]>>, <<Registry[3]>>, <<Registry[4]>>}

InitRefresh ==
  /\ \E build \in BOOLEAN :
       pc = [at |-> "main", build_dictionary |-> build, offset |-> 0, changed |-> FALSE]
  /\ queue = <<>>
  /\ visited = {}
  /\ dictionary \in LoadedDictionaries
  /\ dictionary_dirty = FALSE
  /\ unresolved_refs = <<>>
  /\ max_depth = 0
  /\ no_overwrite = FALSE
  /\ non_interactive = FALSE
  /\ notes = ExistingNotes
  /\ dict_file = IF dictionary = <<>> THEN None ELSE Some(dictionary)
  /\ unresolved_file = LoadedStore
  /\ log = <<[op |-> "load", dictionary |-> dictionary]>>

RefreshFrame == <<queue, visited, dictionary_dirty, unresolved_refs, config, notes,
                  unresolved_file>>
\* api.list_laws_paged(limit, offset)
Listed(ok, items) ==
  Append(log, [op |-> "list", limit |-> PageLimit, offset |-> pc.offset, ok |-> ok,
               items |-> items])

\* a file written whatever the refresh returned: the faulty variant of
\* WritesDictionary
WritesRegardless(ok, changed, build_dictionary) == changed \/ build_dictionary
\* let changed = refresh_dictionary_from_api(..)?; if changed || cli.build_dictionary
WritesDictionary(ok, changed, build_dictionary) == ok /\ (changed \/ build_dictionary)

\* if cli.build_dictionary { dictionary.clear(); } and the entry into the loop
BeginRefresh ==
  /\ pc.at = "main"
  /\ dictionary' = IF pc.build_dictionary THEN <<>> ELSE dictionary
  /\ pc' = [pc EXCEPT !.at = "refresh"]
  /\ UNCHANGED <<dict_file, log>>
  /\ UNCHANGED RefreshFrame

\* a turn of the loop on a page that holds items
PageOfItems ==
  /\ pc.at = "refresh"
  /\ pc.offset < MaxPages * PageLimit
  /\ \E laws \in Pages :
       \E d \in {RefreshItems([dictionary |-> dictionary, dictionary_dirty |-> pc.changed],
                              laws)} :
         /\ dictionary' = d.dictionary
         /\ pc' = [pc EXCEPT !.offset = @ + PageLimit, !.changed = d.dictionary_dirty]
         /\ log' = Listed(TRUE, Len(laws))
  /\ UNCHANGED dict_file
  /\ UNCHANGED RefreshFrame

\* the turn on a page without items: break, Ok(changed), and main's write
EmptyPage ==
  /\ pc.at = "refresh"
  /\ \E write_ok \in BOOLEAN :
       IF WritesDictionary(TRUE, pc.changed, pc.build_dictionary)
       THEN /\ dict_file' = IF write_ok THEN Some(dictionary) ELSE dict_file
            /\ pc' = [pc EXCEPT !.at = IF write_ok THEN "done" ELSE "err"]
            /\ log' = Listed(TRUE, 0) \o <<[op |-> "write_dictionary", ok |-> write_ok]>>
       ELSE /\ dict_file' = dict_file
            /\ pc' = [pc EXCEPT !.at = "done"]
            /\ log' = Listed(TRUE, 0)
  /\ UNCHANGED dictionary
  /\ UNCHANGED RefreshFrame

\* list_laws_paged(limit, offset)? returning Err, and main returning it
PageFails ==
  /\ pc.at = "refresh"
  /\ dict_file' = IF WritesDictionary(FALSE, pc.changed, pc.build_dictionary)
                  THEN Some(dictionary) ELSE dict_file
  /\ pc' = [pc EXCEPT !.at = "err"]
  /\ log' = Listed(FALSE, 0)
  /\ UNCHANGED dictionary
  /\ UNCHANGED RefreshFrame

NextRefresh ==
  \/ BeginRefresh
  \/ PageOfItems
  \/ EmptyPage
  \/ PageFails

SpecRefresh == InitRefresh /\ [][NextRefresh]_vars

(***************************************************************************)
(* The unresolved-reference store under save_unresolved_refs: run records   *)
(* events, then saves them into the store it finds at unresolved_path.      *)
(***************************************************************************)
\* the most events a run of this specification records
MaxEvents == 3
\* the stores at unresolved_path: no file; the store of an earlier run; a
\* store with two pairs, one seen twice and without a sample; a store edited
\* by hand that holds one pair twice
Record1 == [source_law |-> KeiHo, alias |-> <<"zen", "jou">>, first_seen_at |-> 1,
            last_seen_at |-> 1, count |-> 2, sample_context |-> None, status |-> "done"]
Record2 == [source_law |-> MinHo, alias |-> KeiHo, first_seen_at |-> 1,
            last_seen_at |-> 1, count |-> 1, sample_context |-> ResolveFailedContext,
            status |-> "pending"]
LoadedStores ==
  { None, LoadedStore, Some(<<Record1, Record2>>),
    Some(<<Record2, Record1, [Record2 EXCEPT !.status = "ignored"]>>) }
\* the events a run records: a failed resolution (with a sample), an
\* anaphoric token left in a note (without)
EventChoices ==
  {[source_law |-> src, alias |-> alias, sample_context |-> ctx] :
     src \in {MinHo, KeiHo}, alias \in {<<"zen", "jou">>, KeiHo},
     ctx \in {None, ResolveFailedContext}}

InitStore ==
  /\ pc = "store"
  /\ queue = <<>>
  /\ visited = {}
  /\ dictionary = <<>>
  /\ dictionary_dirty = FALSE
  /\ unresolved_refs = <<>>
  /\ max_depth = 0
  /\ no_overwrite = FALSE
  /\ non_interactive = FALSE
  /\ notes = ExistingNotes
  /\ dict_file = None
  /\ unresolved_file \in LoadedStores
  /\ log = <<[op |-> "load_store", file |-> unresolved_file]>>

\* self.unresolved_refs.push(UnresolvedRef { .. }) of run and the extend of
\* write_law_note
RecordEvent ==
  /\ pc = "store"
  /\ Len(unresolved_refs) < MaxEvents
  /\ \E event \in EventChoices : unresolved_refs' = Append(unresolved_refs, event)
  /\ UNCHANGED <<pc, queue, visited, dictionary, dictionary_dirty, config, notes,
                 dict_file, unresolved_file, log>>

\* self.save_unresolved_refs()? returning Ok
SaveStore ==
  /\ pc = "store"
  /\ \E now \in 2..MaxClock :
       \E s \in {save_unresolved_refs(unresolved_file, unresolved_refs, now, TRUE, TRUE)} :
         /\ unresolved_file' = s.file
         /\ log' = log \o <<[op |-> "save_unresolved", now |-> now, written |-> s.written]>>
  /\ pc' = "saved"
  /\ UNCHANGED <<queue, visited, dictionary, dictionary_dirty, unresolved_refs, config,
                 notes, dict_file>>

\* self.save_unresolved_refs()? returning Err: the store cannot be read or
\* parsed, or cannot be written
SaveStoreFail ==
  /\ pc = "store"
  /\ \E now \in 2..MaxClock, load_ok \in BOOLEAN, write_ok \in BOOLEAN :
       \E s \in {save_unresolved_refs(unresolved_file, unresolved_refs, now, load_ok, write_ok)} :
         /\ ~s.ok
         /\ unresolved_file' = s.file
         /\ log' = log \o Returned(FALSE)
  /\ pc' = "err"
  /\ UNCHANGED <<queue, visited, dictionary, dictionary_dirty, unresolved_refs, config,
                 notes, dict_file>>

NextStore ==
  \/ RecordEvent
  \/ SaveStore
  \/ SaveStoreFail

SpecStore == InitStore /\ [][NextStore]_vars

(***************************************************************************)
(* The text functions, each applied once to an input drawn at the start.    *)
(* The log holds the input and then the call with what it returned.         *)
(***************************************************************************)
\* the longest fragment handed to normalize_law_ref_title
NormalizeMaxLen == 4
\* the fragments of 同 法 律 旧 中 本 民 、, and この法律, 前記法, 旧前記法,
\* 新法, 民法中旧商法 and 旧旧旧民法
NormalizeInputs ==
  UNION {[1..n -> {"dou", "ho", "ritsu", "kyuu", "chuu", "hon", "min", "ten"}] :
           n \in 0..NormalizeMaxLen}
    \cup {<<"ko", "no", "ho", "ritsu">>, <<"zen", "ki2", "ho">>,
          <<"kyuu", "zen", "ki2", "ho">>, <<"shin", "ho">>,
          <<"min", "ho", "chuu", "kyuu", "shou2", "ho">>,
          <<"kyuu", "kyuu", "kyuu", "min", "ho">>}


\* the most pieces of a document handed to linkify_markdown
MaxPieces == 3
\* 民法 / 同法 / 第1条 / 第2項 / 第1号 / 前条 / の / a line break /
\* the headings "## 第1条" and "## 第二条" with their line breaks
Pieces ==
  { <<"min", "ho">>, <<"dou", "ho">>, <<"dai", "1", "jou">>, <<"dai", "2", "kou">>,
    <<"dai", "1", "gou">>, <<"zen", "jou">>, <<"no">>, <<"nl">>,
    <<"#", "#", "sp", "dai", "1", "jou", "nl">>,
    <<"#", "#", "sp", "dai", "ni", "jou", "nl">> }
\* the documents: every sequence of at most MaxPieces pieces, and documents
\* written out: the text of the test linkify_handles_external_and_internal_articles
\* (民法第2条及び第3条 with 及び as の), 旧民法第2条第3条, two lines with an
\* external and an
\* internal reference, 前条の旧民法第1条, 前条 in a heading and after a
\* link, a line 第2項前条 before a line with a reference (without and with a
\* heading above), a line that holds a
\* link already, a line that holds the text of a placeholder
Documents ==
  {Concat(ps) : ps \in UNION {[1..n -> Pieces] : n \in 0..MaxPieces}}
    \cup { <<"min", "ho", "dai", "2", "jou", "no", "dai", "3", "jou">>,
           <<"kyuu", "min", "ho", "dai", "2", "jou", "dai", "3", "jou">>,
           <<"min", "ho", "dai", "1", "jou", "nl", "dai", "1", "jou">>,
           <<"zen", "jou", "no", "kyuu", "min", "ho", "dai", "1", "jou">>,
           <<"[", "[", "X", "]", "]", "dai", "1", "jou">>,
           <<"#", "sp", "zen", "jou">>,
           <<"dai", "2", "kou", "zen", "jou", "nl", "dai", "2", "kou">>,
           <<"#", "#", "sp", "dai", "1", "jou", "nl", "dai", "2", "kou", "zen", "jou", "nl",
             "dai", "1", "gou">>,
           <<"[", "[", "X", "]", "]", "zen", "jou">>,
           <<"_", "_", "E", "X", "T", "_", "L", "I", "N", "K", "_", "0", "_", "_",
             "min", "ho", "dai", "1", "jou">> }
\* the titles 刑法 and 刑/法 (with a character that sanitize_filename
\* replaces), the directories ./L and .
LinkifyInputs ==
  [markdown : Documents, current_law_title : {KeiHo, <<"kei", "/", "ho">>},
   output_dir : {OutputDir, <<".">>}]

\* the longest title handed to sanitize_filename
SanitizeMaxLen == 4
\* the titles: 民, the forbidden / and :, a space, an ideographic space, a period
SanitizeInputs ==
  UNION {[1..n -> {"min", "/", ":", "sp", "zsp", "."}] : n \in 0..SanitizeMaxLen}
    \cup {<<"bs", "*", "?", "dq", "<", ">", "|">>}

\* the candidates whose keys are compared: an id that is absent, empty, 1 or
\* n; a number that is absent, 1 or 一号; the title 民法, 刑法 or 1
KeyCandidates ==
  [law_id : {None, Some(<<>>), Some(<<"1">>), Some(<<"n">>)},
   law_num : {None, Some(<<"1">>), Some(<<"ichi", "gou">>)},
   law_title : {MinHo, KeiHo, <<"1">>}]

\* The dictionaries the fragments are resolved against: their keys are among
\* 民法, 刑法, 法, LINK and 民 (refresh_dictionary_from_api inserts
\* abbreviations as they come), each under an entry whose canonical title is
\* the key followed by 令.
ResolveDictionaries ==
  {[k \in keys |-> [law_id |-> k, law_num |-> None, law_title |-> k \o <<"rei">>]] :
     keys \in SUBSET {MinHo, KeiHo, <<"ho">>, <<"L", "I", "N", "K">>, <<"min">>}}
\* the fragments: 民法, 旧民法, LINK民法, 民刑法, 商法, 同法 and 民
ResolveFragments ==
  {MinHo, <<"kyuu">> \o MinHo, <<"L", "I", "N", "K">> \o MinHo, <<"min">> \o KeiHo,
   ShouHo, <<"dou", "ho">>, <<"min">>}
\* every dictionary in every iteration order of its keys
ResolveInputs ==
  UNION {{[fragment |-> f, dictionary |-> d, order |-> o] :
            f \in ResolveFragments, o \in Perms(DOMAIN d)} : d \in ResolveDictionaries}

TextInputs ==
  {[op |-> "input", fn |-> "normalize_law_ref_title", arg |-> s] : s \in NormalizeInputs}
    \cup {[op |-> "input", fn |-> "linkify_markdown", arg |-> a] : a \in LinkifyInputs}
    \cup {[op |-> "input", fn |-> "sanitize_filename", arg |-> t] : t \in SanitizeInputs}
    \cup {[op |-> "input", fn |-> "identity_key", arg |-> <<c1, c2>>] :
            c1 \in KeyCandidates, c2 \in KeyCandidates}
    \cup {[op |-> "input", fn |-> "resolve_law_title_from_fragment", arg |-> a] :
            a \in ResolveInputs}

InitText ==
  /\ pc = "text"
  /\ queue = <<>>
  /\ visited = {}
  /\ dictionary = <<>>
  /\ dictionary_dirty = FALSE
  /\ unresolved_refs = <<>>
  /\ max_depth = 0
  /\ no_overwrite = FALSE
  /\ non_interactive = FALSE
  /\ notes = <<>>
  /\ dict_file = None
  /\ unresolved_file = None
  /\ \E input \in TextInputs : log = <<input>>

\* the call of the function on the input, and its return
Called(fn) == pc = "text" /\ log[1].fn = fn
Return(ret) ==
  /\ log' = Append(log, [op |-> "return", ret |-> ret])
  /\ pc' = "done"
  /\ UNCHANGED <<queue, visited, dictionary, dictionary_dirty, unresolved_refs, config,
                 notes, dict_file, unresolved_file>>

Normalize ==
  /\ Called("normalize_law_ref_title")
  /\ Return(normalize_law_ref_title(log[1].arg))

\* linkify_markdown(&base_markdown, &law.law_title, &self.output_dir)
Linkify ==
  /\ Called("linkify_markdown")
  /\ Return(linkify_markdown(log[1].arg.markdown, log[1].arg.current_law_title,
                             log[1].arg.output_dir))

\* linkify_markdown once more, on the text it returned
Relinkify ==
  /\ pc = "done"
  /\ log[1].fn = "linkify_markdown"
  /\ log' = Append(log, [op |-> "return",
                         ret |-> linkify_markdown(log[2].ret[1], log[1].arg.current_law_title,
                                                  log[1].arg.output_dir)])
  /\ pc' = "again"
  /\ UNCHANGED <<queue, visited, dictionary, dictionary_dirty, unresolved_refs, config,
                 notes, dict_file, unresolved_file>>

Sanitize ==
  /\ Called("sanitize_filename")
  /\ Return(sanitize_filename(log[1].arg))

\* the keys of two candidates, as run inserts them into `visited`
IdentityKeys ==
  /\ Called("identity_key")
  /\ Return(<<identity_key(log[1].arg[1]), identity_key(log[1].arg[2])>>)

\* resolve_law_title_from_fragment(law_fragment, dictionary)
ResolveFragment ==
  /\ Called("resolve_law_title_from_fragment")
  /\ Return(resolve_law_title_from_fragment(log[1].arg.fragment, log[1].arg.dictionary,
                                             log[1].arg.order))

NextText ==
  \/ Normalize
  \/ Linkify
  \/ Relinkify
  \/ Sanitize
  \/ IdentityKeys
  \/ ResolveFragment

SpecText == InitText /\ [][NextText]_vars

(***************************************************************************)
(* ApiClient::get_json: one call, a step for each turn of its retry loop.   *)
(* Here pc is the record [at, attempt, last_err]: at is "loop" at the head  *)
(* of `for attempt in 0..3`, "ok" or "err" once the call has returned.      *)
(***************************************************************************)
\* for attempt in 0..3
Attempts == 3
\* what client.get(..).send() gives: a transport failure, or a response with
\* a status and a body that parses as JSON or does not
Responses ==
  {[kind |-> "failure"]} \cup
  [kind : {"response"}, status : {200, 204, 301, 400, 404, 429, 500, 503}, json : BOOLEAN]
\* StatusCode::is_success, is_server_error
is_success(status) == status \in 200..299
is_server_error(status) == status \in 500..599
\* a retry on every status that is not a success: the faulty variant of
\* Retried
RetriedUnlessSuccess(res) == IF res.kind = "failure" THEN TRUE ELSE ~is_success(res.status)
\* Err(e), or status == TOO_MANY_REQUESTS || status.is_server_error()
Retried(res) ==
  IF res.kind = "failure" THEN TRUE ELSE res.status = 429 \/ is_server_error(res.status)
\* Duration::from_millis(400 * (attempt + 1))
Backoff(attempt) == 400 * (attempt + 1)

InitGetJson ==
  /\ pc = [at |-> "loop", attempt |-> 0, last_err |-> None]
  /\ queue = <<>>
  /\ visited = {}
  /\ dictionary = <<>>
  /\ dictionary_dirty = FALSE
  /\ unresolved_refs = <<>>
  /\ max_depth = 0
  /\ no_overwrite = FALSE
  /\ non_interactive = FALSE
  /\ notes = <<>>
  /\ dict_file = None
  /\ unresolved_file = None
  /\ log = <<>>

\* the log of one turn: the request with what came back, and the sleep
Requested(res) == <<[op |-> "request", attempt |-> pc.attempt, res |-> res]>>
Slept == <<[op |-> "sleep", millis |-> Backoff(pc.attempt)]>>
LastErr(res) == IF res.kind = "failure" THEN Some("API call failed") ELSE pc.last_err
GetJsonFrame ==
  UNCHANGED <<queue, visited, dictionary, dictionary_dirty, unresolved_refs, config,
              notes, dict_file, unresolved_file>>

\* a turn that ends in `continue` or falls out of the Err arm, with a turn left
GetJsonRetry ==
  /\ pc.at = "loop"
  /\ pc.attempt + 1 < Attempts
  /\ \E res \in Responses :
       /\ Retried(res)
       /\ log' = log \o Requested(res) \o Slept
       /\ pc' = [at |-> "loop", attempt |-> pc.attempt + 1, last_err |-> LastErr(res)]
  /\ GetJsonFrame

\* the last turn ending the same way: Err(last_err.unwrap_or_else(..))
GetJsonGiveUp ==
  /\ pc.at = "loop"
  /\ pc.attempt + 1 = Attempts
  /\ \E res \in Responses :
       /\ Retried(res)
       /\ log' = log \o Requested(res) \o Slept
                     \o <<[op |-> "return", ok |-> FALSE,
                           err |-> UnwrapOr(LastErr(res), "API call did not succeed")]>>
       /\ pc' = [at |-> "err", attempt |-> pc.attempt + 1, last_err |-> LastErr(res)]
  /\ GetJsonFrame

\* if !status.is_success() { return Err(anyhow!("APIエラー ..")) }
GetJsonFail ==
  /\ pc.at = "loop"
  /\ \E res \in Responses :
       /\ ~Retried(res)
       /\ ~is_success(res.status)
       /\ log' = log \o Requested(res) \o <<[op |-> "return", ok |-> FALSE, err |-> "API error"]>>
       /\ pc' = [pc EXCEPT !.at = "err"]
  /\ GetJsonFrame

\* return resp.json::<Value>().with_context(..)
GetJsonReturn ==
  /\ pc.at = "loop"
  /\ \E res \in Responses :
       /\ ~Retried(res)
       /\ is_success(res.status)
       /\ log' = log \o Requested(res)
                     \o <<IF res.json THEN [op |-> "return", ok |-> TRUE, err |-> ""]
                          ELSE [op |-> "return", ok |-> FALSE, err |-> "JSON parse failed"]>>
       /\ pc' = [pc EXCEPT !.at = IF res.json THEN "ok" ELSE "err"]
  /\ GetJsonFrame

NextGetJson ==
  \/ GetJsonRetry
  \/ GetJsonGiveUp
  \/ GetJsonFail
  \/ GetJsonReturn

SpecGetJson == InitGetJson /\ [][NextGetJson]_vars

(***************************************************************************)
(* resolve_candidate called time after time on one Processor, as run calls  *)
(* it for the entries it dequeues.                                          *)
(***************************************************************************)
\* the largest number of calls of the model
MaxResolves == 2
\* the titles resolved: the roots, 刑法, and 新法, a title that
\* normalize_law_ref_title rejects (as it rejects every title that holds
\* hiragana before its suffix, e.g. 個人情報の保護に関する法律)
ResolveTitles == RootTitles \cup {KeiHo, ShinHo}

InitResolve ==
  /\ pc = "resolve"
  /\ queue = <<>>
  /\ visited = {}
  /\ dictionary \in LoadedDictionaries
  /\ dictionary_dirty = FALSE
  /\ unresolved_refs = <<>>
  /\ max_depth = 0
  /\ no_overwrite = FALSE
  /\ non_interactive \in BOOLEAN
  /\ notes = ExistingNotes
  /\ dict_file = IF dictionary = <<>> THEN None ELSE Some(dictionary)
  /\ unresolved_file = LoadedStore
  /\ log = <<>>

\* self.resolve_candidate(&title)
ResolveTitle ==
  /\ pc = "resolve"
  /\ Len(log) < MaxResolves
  /\ \E title \in ResolveTitles :
       \E search \in SearchChoices(title) :
         \E input \in InputChoices(search) :
           \E r \in {resolve_candidate(Dict, non_interactive, title, search, input)} :
             /\ dictionary' = r.d.dictionary
             /\ dictionary_dirty' = r.d.dictionary_dirty
             /\ log' = Append(log, [op |-> "resolve_candidate", title |-> title,
                                    searched |-> r.searched, search |-> search,
                                    ok |-> r.ok, candidate |-> r.candidate])
  /\ UNCHANGED <<pc, queue, visited, unresolved_refs, config, notes, dict_file,
                 unresolved_file>>

NextResolve == ResolveTitle

SpecResolve == InitResolve /\ [][NextResolve]_vars

(***************************************************************************)
(* Properties of Processor::run.                                            *)
(***************************************************************************)
\* the positions of the log that hold an event of one of the kinds
Events(ops) == {i \in DOMAIN log : log[i].op \in ops}
\* the events of the turns of the loop that got past the depth check
TurnOps == {"dequeue", "search", "resolve", "skip", "fetch", "write"}
\* the run is over
Terminated == pc \in {"ok", "err"}

\* C1: an entry deeper than max_depth is dropped before any resolution,
\* search, fetch or write: every event of a turn and every note written in
\* the run has depth <= max_depth, and with max_depth = 0 the only statute
\* fetched and written is the root's (the entry of depth 0).
C1_DepthBound ==
  /\ \A i \in Events(TurnOps) : log[i].entry.depth <= max_depth
  /\ \A i \in Events({"drop"}) : log[i].entry.depth > max_depth
  /\ \A f \in DOMAIN notes : notes[f] # OldNote => notes[f].depth <= max_depth
  /\ max_depth = 0 =>
       /\ Cardinality(Events({"fetch"})) <= 1
       /\ Cardinality(Events({"write"})) <= 1
       /\ \A i \in Events({"fetch", "write"}) : log[i].entry.depth = 0

\* a finished run with max_depth = 0 that wrote the root's note and dropped
\* the references of its body
C1_Witness ==
  /\ pc = "ok"
  /\ max_depth = 0
  /\ Events({"write"}) # {}
  /\ Cardinality(Events({"drop"})) >= 2

\* C2: within one run every identity key is fetched at most once and gets a
\* note written at most once.
C2_AtMostOnce ==
  \A i, j \in Events({"fetch", "write"}) :
    (log[i].op = log[j].op /\ log[i].key = log[j].key) => i = j

\* a run in which an entry was skipped that resolved to the identity of a
\* note written before, under another title and from another source statute
C2_Witness ==
  \E i \in Events({"write"}), j \in Events({"skip"}) :
    /\ i < j
    /\ log[i].key = log[j].key
    /\ log[i].entry.title # log[j].entry.title
    /\ log[i].entry.source_law # log[j].entry.source_law

\* C3: run terminates, for every max_depth and also when statutes cite
\* themselves or each other in a cycle: it returns an error, or the queue
\* becomes empty and it returns Ok.
C3_Terminates == <>(pc = "err" \/ (pc = "ok" /\ queue = <<>>))

\* a run that returned Ok at the largest max_depth after skipping a statute's
\* reference to itself and a reference back to the root
C3_Witness ==
  /\ pc = "ok"
  /\ max_depth = MaxDepthBound
  /\ \E i \in Events({"skip"}) : log[i].entry.source_law = log[i].entry.title
  /\ \E i \in Events({"skip"}), j \in Events({"write"}) :
       log[j].entry.depth = 0 /\ log[i].key = log[j].key /\ log[i].entry.depth = 2

\* the events that a step appends to the log
NewEvents == SubSeq(log', Len(log) + 1, Len(log'))
\* the step appends to unresolved_refs exactly one event, of this source and alias
PushesOne(source_law, alias) ==
  /\ Len(unresolved_refs') = Len(unresolved_refs) + 1
  /\ SubSeq(unresolved_refs', 1, Len(unresolved_refs)) = unresolved_refs
  /\ unresolved_refs'[Len(unresolved_refs')].source_law = source_law
  /\ unresolved_refs'[Len(unresolved_refs')].alias = alias

\* C4: when resolve_candidate fails for the dequeued entry, the entry is
\* neither fetched nor written nor expanded; at depth 0 run returns the
\* error with nothing fetched or written at all, at depth > 0 exactly one
\* UnresolvedRef (the entry's source statute, the entry's title) is appended
\* and the loop goes on with the rest of the queue.
C4_ResolveFailure ==
  [][\A i \in DOMAIN NewEvents :
       (NewEvents[i].op = "resolve" /\ ~NewEvents[i].ok) =>
         /\ notes' = notes
         /\ visited' = visited
         /\ \A j \in DOMAIN NewEvents : NewEvents[j].op \notin {"fetch", "write"}
         /\ IF NewEvents[i].entry.depth = 0
            THEN /\ pc' = "err"
                 /\ unresolved_refs' = unresolved_refs
                 /\ \A j \in DOMAIN log' : log'[j].op \notin {"fetch", "write"}
            ELSE /\ pc' = "loop"
                 /\ queue' = Tail(queue)
                 /\ PushesOne(NewEvents[i].entry.source_law, NewEvents[i].entry.title)]_vars

\* a run that went on to dequeue another entry after a resolution failed
\* below the root and was recorded
C4_Witness ==
  \E i \in Events({"resolve"}), j \in Events({"dequeue"}) :
    /\ ~log[i].ok
    /\ log[i].entry.depth > 0
    /\ i < j
    /\ \E k \in DOMAIN unresolved_refs :
         /\ unresolved_refs[k].source_law = log[i].entry.source_law
         /\ unresolved_refs[k].alias = log[i].entry.title

\* C5: a terminal error of an API call of the crawl, the search by title as
\* well as the fetch by identifier, at any depth, makes run return that error
\* at once: the failed call is the last thing the run did.
C5_ApiErrorEndsRun ==
  \A i \in Events({"search", "fetch"}) :
    ~log[i].ok => \E j \in Events({"return"}) :
                    /\ ~log[j].ok
                    /\ j = Len(log)
                    /\ \A k \in (i + 1)..(j - 1) : log[k].op = "resolve"

\* C6: a failed fetch (no answer, or an answer with no text) makes run return
\* the error with no note written for the statute and no further entry
\* processed; a note is written only right after the successful fetch of the
\* same identity, and never for a statute whose text is empty.
C6_FetchFailureIsFatal ==
  /\ \A i \in Events({"fetch"}) :
       ~log[i].ok => /\ pc = "err"
                     /\ i + 1 = Len(log)
                     /\ log[i + 1] = [op |-> "return", ok |-> FALSE]
  /\ \A i \in Events({"write"}) :
       /\ log[i - 1].op = "fetch"
       /\ log[i - 1].ok
       /\ log[i - 1].key = log[i].key
  /\ \A f \in DOMAIN notes :
       notes[f] # OldNote => \E i \in Events({"write"}) : log[i].file = f
  /\ \A n \in DOMAIN Registry :
       FlattenedText(Registry[n].law_full_text) = <<>>
         => NoteFile(Registry[n].law_title) \notin DOMAIN notes

\* a run that wrote a note and then failed on the fetch of the statute whose
\* text is empty
C6_Witness ==
  /\ pc = "err"
  /\ Events({"write"}) # {}
  /\ \E i \in Events({"fetch"}) : ~log[i].ok /\ log[i].key = <<"i", "d", ":">> \o Registry[4].law_id

(***************************************************************************)
(* Properties of the name dictionary.                                       *)
(***************************************************************************)
\* C7: whatever register_candidate_aliases, register_law_contents and
\* refresh_dictionary_from_api are called with and in whatever order, a key
\* of the dictionary stays a key and keeps its entry.
C7_FirstWins ==
  [][\A k \in DOMAIN dictionary :
       k \in DOMAIN dictionary' /\ dictionary'[k] = dictionary[k]]_vars

\* 民法 was learned as an alias of 刑法 from a search, and a later refresh,
\* which lists 民法 under its own identity and number, left the entry alone
C7_Witness ==
  /\ MinHo \in DOMAIN dictionary
  /\ dictionary[MinHo] = RegistryEntry(2)
  /\ <<"ichi", "gou">> \in DOMAIN dictionary
  /\ dictionary[<<"ichi", "gou">>] = RegistryEntry(1)

\* the longest text tried as an input of the normalizer
FragmentMaxLen == 3
\* the characters of those texts: the ones of the keys, and a qualifier
FragmentChars == {"min", "kei", "shou2", "ho", "ichi", "ni", "gou", "kyuu"}
Fragments == UNION {[1..n -> FragmentChars] : n \in 0..FragmentMaxLen}
\* the texts that normalize_law_ref_title returns for some fragment
NormalizerOutputs ==
  {Unwrap(normalize_law_ref_title(s)) :
     s \in {t \in Fragments : normalize_law_ref_title(t) # None}}

\* C8: every key that an operation inserts into the dictionary is an output
\* of normalize_law_ref_title.
C8_KeysAreNormalized ==
  [][\A k \in DOMAIN dictionary' \ DOMAIN dictionary : k \in NormalizerOutputs]_vars


(***************************************************************************)
(* Properties of the persistence at the end of run.                         *)
(***************************************************************************)
\* the aliases this run has inserted: the keys the loaded dictionary lacked
\* (no key is ever removed)
Inserted == DOMAIN dictionary \ DOMAIN log[1].dictionary
\* the dictionary file as the run found it
LoadedFile == IF log[1].dictionary = <<>> THEN None ELSE Some(log[1].dictionary)
DictionarySaved == Events({"save_dictionary"}) # {}

\* C9 as stated: a run that has made no insertion leaves the dictionary file
\* untouched, and a run that has made at least one insertion has rewritten
\* the file by the time it is over.
C9_RewrittenWhenInserted ==
  Terminated =>
    /\ Inserted = {} => ~DictionarySaved /\ dict_file = LoadedFile
    /\ Inserted # {} => DictionarySaved /\ dict_file = Some(dictionary)

\* C9, amended: a run that has made no insertion never touches the dictionary
\* file; the file changes only by save_dictionary; and a run that returns Ok
\* having made at least one insertion has rewritten the file with the whole
\* dictionary (a run that returns an error may have lost its insertions).
C9_DirtyGatesPersistence ==
  /\ Inserted = {} => ~DictionarySaved
  /\ ~DictionarySaved => dict_file = LoadedFile
  /\ dictionary_dirty <=> (Inserted # {} /\ ~DictionarySaved)
  /\ pc = "ok" /\ Inserted # {} => DictionarySaved /\ dict_file = Some(dictionary)
\* a run that learned an alias, returned Ok and left a new dictionary file
C9_Witness ==
  /\ pc = "ok"
  /\ Inserted # {}
  /\ DictionarySaved
  /\ dict_file = Some(dictionary)
  /\ dict_file # LoadedFile
\* a run that made no insertion, returned Ok and left the file as it was
C9_UntouchedWitness ==
  pc = "ok" /\ Inserted = {} /\ ~DictionarySaved /\ dict_file = LoadedFile /\ visited # {}


(***************************************************************************)
(* Properties of save_unresolved_refs.                                      *)
(***************************************************************************)
\* the (source statute, alias) pair of a record or of an event
PairOf(r) == <<r.source_law, r.alias>>
\* the positions of a sequence of records or events that hold the pair
WithPair(rs, pair) == {i \in DOMAIN rs : PairOf(rs[i]) = pair}
OnePerPair(items) == \A i \in DOMAIN items : WithPair(items, PairOf(items[i])) = {i}
\* the store the save found, the time of the save, and the store it wrote
StoreBefore == load_unresolved_store(log[1].file)
SavedAt == log[Len(log)].now
StoreAfter == Unwrap(unresolved_file)
StoreWritten == pc = "saved" /\ log[Len(log)].written

\* C10: save_unresolved_refs, on a loaded store with at most one record per
\* pair, writes a store with at most one record per pair, namely one for each
\* pair of the loaded store or of the run's events; the record's count is the
\* loaded count (0 if absent) plus the number of the run's events with the
\* pair; where the run has such an event last-seen is the time of the save; a
\* record that was loaded keeps its first-seen and its status; a new record
\* has status "pending".
C10_MergeByPair ==
  StoreWritten /\ OnePerPair(StoreBefore) =>
    /\ OnePerPair(StoreAfter)
    /\ {PairOf(StoreAfter[i]) : i \in DOMAIN StoreAfter}
         = {PairOf(StoreBefore[i]) : i \in DOMAIN StoreBefore}
             \cup {PairOf(unresolved_refs[i]) : i \in DOMAIN unresolved_refs}
    /\ \A i \in DOMAIN StoreAfter :
         LET Check(r, old, seen) ==
               /\ r.count = (IF old = {} THEN 0 ELSE StoreBefore[MinOf(old)].count)
                              + Cardinality(seen)
               /\ seen # {} => r.last_seen_at = SavedAt
               /\ old # {} => /\ r.first_seen_at = StoreBefore[MinOf(old)].first_seen_at
                              /\ r.status = StoreBefore[MinOf(old)].status
                              /\ seen = {} => r = StoreBefore[MinOf(old)]
               /\ old = {} => r.status = "pending" /\ r.first_seen_at = SavedAt
         IN Check(StoreAfter[i], WithPair(StoreBefore, PairOf(StoreAfter[i])),
                  WithPair(unresolved_refs, PairOf(StoreAfter[i])))
\* a save that met a loaded pair twice in the run's events and a new pair
C10_Witness ==
  /\ StoreWritten
  /\ OnePerPair(StoreBefore)
  /\ \E i \in DOMAIN StoreBefore :
       Cardinality(WithPair(unresolved_refs, PairOf(StoreBefore[i]))) >= 2
  /\ \E i \in DOMAIN unresolved_refs :
       WithPair(StoreBefore, PairOf(unresolved_refs[i])) = {}


(***************************************************************************)
(* Properties of the text functions.                                        *)
(***************************************************************************)
\* the function the behaviour applies has returned
Returned1(fn) == pc = "done" /\ log[1].fn = fn
Arg == log[1].arg
Ret == log[2].ret
\* 同法, 同法律, この法律, 本法, 前記法
AnaphoricNames == { <<"dou", "ho">>, <<"dou", "ho", "ritsu">>, <<"ko", "no", "ho", "ritsu">>,
                    <<"hon", "ho">>, <<"zen", "ki2", "ho">> }

\* C11: whatever the fragment, normalize_law_ref_title returns neither one of
\* the anaphoric names 同法, 同法律, この法律, 本法, 前記法 nor a token of
\* fewer than two characters.
C11_NeitherAnaphoricNorShort ==
  Returned1("normalize_law_ref_title") /\ Ret # None =>
    Unwrap(Ret) \notin AnaphoricNames /\ Len(Unwrap(Ret)) >= 2
\* 旧同法: the token is anaphoric only once its qualifier is stripped, and it
\* is rejected
C11_Witness ==
  /\ Returned1("normalize_law_ref_title")
  /\ Arg = <<"kyuu", "dou", "ho">>
  /\ Ret = None
\* 旧民法 is accepted as 民法
C11_AcceptedWitness ==
  /\ Returned1("normalize_law_ref_title")
  /\ Arg = <<"kyuu", "min", "ho">>
  /\ Ret = Some(<<"min", "ho">>)


\* C12: linkify_markdown is idempotent on its text: applied to the linked text
\* it returned, with the same title and directory, it returns that text
\* unchanged.
C12_LinkifyIdempotent ==
  pc = "again" /\ log[1].fn = "linkify_markdown" => log[3].ret[1] = log[2].ret[1]
\* a first pass that wrote an external link and an internal link (民法第1条
\* and 第1条 on the next line), and a second pass over its output
C12_Witness ==
  /\ pc = "again"
  /\ log[1].fn = "linkify_markdown"
  /\ Arg.markdown = <<"min", "ho", "dai", "1", "jou", "nl", "dai", "1", "jou">>
  /\ Contains(Ret[1], <<"|", "min", "ho", "dai", "1", "jou", "]", "]", "nl", "[", "[">>)
  /\ Ret[1] # Arg.markdown \o <<"nl">>
  /\ log[3].ret[1] = Ret[1]


\* 前条
PrecedingArticle == <<"zen", "jou">>
\* C13: for every document that contains 前条, the text linkify_markdown
\* returns still contains 前条 and the unresolved tokens it returns contain
\* 前条.
C13_PrecedingArticleReported ==
  Returned1("linkify_markdown") /\ Contains(Arg.markdown, PrecedingArticle) =>
    /\ Contains(Ret[1], PrecedingArticle)
    /\ \E i \in DOMAIN Ret[2] : Ret[2][i] = PrecedingArticle


\* / \ : * ? " < > |
ForbiddenInNames == {"/", "bs", ":", "*", "?", "dq", "<", ">", "|"}
\* the title with each forbidden character replaced by one underscore
Underscored(title) ==
  [i \in 1..Len(title) |-> IF title[i] \in ForbiddenInNames THEN "_" ELSE title[i]]
\* C14: sanitize_filename returns the title with each of / \ : * ? " < > |
\* replaced by one underscore and every other character as it is, less the
\* whitespace around it and the periods that end it: the name returned has no
\* leading or trailing whitespace and no trailing period.
C14_SanitizedName ==
  Returned1("sanitize_filename") =>
    /\ \E a \in 1..(Len(Arg) + 1), b \in 0..Len(Arg) :
         /\ Ret = SubSeq(Underscored(Arg), a, b)
         /\ \A i \in 1..(a - 1) : Arg[i] \in Whitespace
         /\ \A i \in (b + 1)..Len(Arg) : Arg[i] \in Whitespace \cup {"."}
    /\ Ret # <<>> => /\ Ret[1] \notin Whitespace
                     /\ Ret[Len(Ret)] \notin Whitespace \cup {"."}


(***************************************************************************)
(* Properties of ApiClient::get_json.                                       *)
(***************************************************************************)
\* the HTTP requests of the call so far, in order, and what it returned
Requests == SelectSeq(log, LAMBDA e : e.op = "request")
Returns == SelectSeq(log, LAMBDA e : e.op = "return")
\* a 429 response, a 5xx response or a transport failure
Transient(res) ==
  IF res.kind = "failure" THEN TRUE
  ELSE res.status = 429 \/ (res.status >= 500 /\ res.status <= 599)
Successful(res) ==
  IF res.kind = "failure" THEN FALSE ELSE res.status >= 200 /\ res.status <= 299

\* C15: a get_json call issues at most 3 requests; every request but the
\* first follows a 429, a 5xx or a transport failure; a successful response
\* or another non-success status is the last request and the call has
\* returned with it, a value or an error for the success and an error for the
\* other; and after 3 transient failures the call has returned an error.
C15_BoundedRetry ==
  /\ Len(Requests) <= 3
  /\ \A i \in 2..Len(Requests) : Transient(Requests[i - 1].res)
  /\ \A i \in 1..Len(Requests) :
       ~Transient(Requests[i].res) =>
         /\ i = Len(Requests)
         /\ pc.at \in {"ok", "err"}
         /\ Len(Returns) = 1
         /\ ~Successful(Requests[i].res) => ~Returns[1].ok
         /\ Returns[1].ok => Requests[i].res.json
  /\ (Len(Requests) = 3 /\ Transient(Requests[3].res)) =>
       pc.at = "err" /\ Len(Returns) = 1 /\ ~Returns[1].ok
  /\ pc.at = "loop" <=> Returns = <<>>
\* a call that met a transport failure and a 503 and then got its value
C15_Witness ==
  /\ pc.at = "ok"
  /\ Len(Requests) = 3
  /\ Requests[1].res.kind = "failure"
  /\ Requests[2].res = [kind |-> "response", status |-> 503, json |-> TRUE]
  /\ Requests[3].res = [kind |-> "response", status |-> 200, json |-> TRUE]
\* a call that gave up after a 429 and two 500s
C15_ExhaustedWitness ==
  /\ pc.at = "err"
  /\ Len(Requests) = 3
  /\ Requests[1].res = [kind |-> "response", status |-> 429, json |-> FALSE]
  /\ Requests[2].res = [kind |-> "response", status |-> 500, json |-> FALSE]
  /\ Requests[3].res = [kind |-> "response", status |-> 500, json |-> FALSE]
  /\ Returns[1].err = "API call did not succeed"


\* the first field of a candidate that is present, in the order id, number,
\* title, with its kind
FirstPresent(c) ==
  IF c.law_id # None THEN [kind |-> "id", value |-> c.law_id[1]]
  ELSE IF c.law_num # None THEN [kind |-> "number", value |-> c.law_num[1]]
  ELSE [kind |-> "title", value |-> c.law_title]
\* C16: the identity key is taken from the first field that is present, in the
\* order id, number, title: two candidates have the same key exactly when
\* their first present fields are of the same kind and equal.
C16_KeyOfFirstPresent ==
  Returned1("identity_key") =>
    (Ret[1] = Ret[2] <=> FirstPresent(Arg[1]) = FirstPresent(Arg[2]))
\* two candidates with the same number and different ids: different keys; and
\* the key of the first holds its id
C16_Witness ==
  /\ Returned1("identity_key")
  /\ Arg[1].law_id = Some(<<"1">>)
  /\ Arg[2].law_id = Some(<<"n">>)
  /\ Arg[1].law_num = Some(<<"1">>)
  /\ Arg[2].law_num = Some(<<"1">>)
  /\ Ret[1] # Ret[2]
  /\ Ret[1] = <<"i", "d", ":", "1">>


\* 第N条
Article(n) == <<"dai", n, "jou">>
\* [[target#anchor|label]]
Link(target, anchor, label) ==
  <<"[", "[">> \o target \o <<"#">> \o anchor \o <<"|">> \o label \o <<"]", "]">>
\* the note of a statute as a link names it: the directory (none for ".", L
\* for "./L") and the title with / as _
NoteOf(title) ==
  (IF Arg.output_dir = <<".">> THEN <<>> ELSE <<"L", "/">>)
    \o [i \in 1..Len(title) |-> IF title[i] = "/" THEN "_" ELSE title[i]]
\* the names of the external references and the tokens they normalize to:
\* 民法 and 旧民法, both 民法
NamedStatutes == { <<MinHo, MinHo>>, <<<<"kyuu", "min", "ho">>, MinHo>> }

\* C17: for a line that holds an external reference <name>第N条, whose name
\* normalizes to a token, and then a bare 第M条, linkify_markdown returns the
\* line with a link to the note of the token at anchor 第N条, labelled token
\* and article, and a link to the note of the current statute at anchor 第M条,
\* labelled 第M条, and nothing of the external link linked once more; it
\* returns no unresolved token.
C17_ExternalThenInternal ==
  Returned1("linkify_markdown") =>
    \A named \in NamedStatutes, n \in {"1", "2"}, m \in {"1", "3"}, glue \in {<<>>, <<"no">>} :
      Arg.markdown = named[1] \o Article(n) \o glue \o Article(m) =>
        /\ Ret[1] = Link(NoteOf(named[2]), Article(n), named[2] \o Article(n))
                      \o glue
                      \o Link(NoteOf(Arg.current_law_title), Article(m), Article(m))
                      \o <<"nl">>
        /\ Ret[2] = <<>>
\* the line of the test: 民法第2条の第3条 in 刑法, notes in ./L
C17_Witness ==
  /\ Returned1("linkify_markdown")
  /\ Arg.markdown = <<"min", "ho", "dai", "2", "jou", "no", "dai", "3", "jou">>
  /\ Arg.current_law_title = KeiHo
  /\ Arg.output_dir = OutputDir
  /\ Ret[1] = <<"[", "[", "L", "/", "min", "ho", "#", "dai", "2", "jou", "|",
                "min", "ho", "dai", "2", "jou", "]", "]", "no",
                "[", "[", "L", "/", "kei", "ho", "#", "dai", "3", "jou", "|",
                "dai", "3", "jou", "]", "]", "nl">>
  /\ Ret[2] = <<>>


\* C18: an article reference that a statute-type name directly precedes,
\* even a name the normalizer rejects such as 同法, is never linked to the
\* note of the current statute: the text returned holds no 法 with a link
\* [[current#第1条|第1条]] right after it.
C18_NoOwnLinkAfterName ==
  Returned1("linkify_markdown") =>
    ~Contains(Ret[1], <<"ho">> \o Link(NoteOf(Arg.current_law_title), Article("1"),
                                       Article("1")))


\* the article token of a heading line: the 第N条 that follows the heading
\* marker; None for any other line
HeadingArticle(line) ==
  LET Token(t) == IF UnitRefLen(t, 1, "jou") > 0 THEN Some(SubSeq(t, 1, UnitRefLen(t, 1, "jou")))
                  ELSE None
  IN IF StartsWith(line, <<"#">>) THEN Token(Trim(TrimStartSet(line, {"#"}))) ELSE None
\* the article token of the last article heading among the first j - 1 lines
HeadingBefore(ls, j) ==
  LET Last(hs) == IF hs = {} THEN None ELSE HeadingArticle(ls[Max(hs)])
  IN Last({i \in 1..(j - 1) : HeadingArticle(ls[i]) # None})
\* the positions of a line at which the label of a link to a paragraph or an
\* item ends: |第N項]] or |第N号]]
UnitLinkEnds(line) ==
  {p \in 1..Len(line) :
     \E unit \in {"kou", "gou"}, n \in {"1", "2"} :
       /\ p > 6
       /\ SubSeq(line, p - 5, p) = <<"|", "dai", n, unit, "]", "]">>}

\* C19: every link to a paragraph (第N項) or an item (第N号) carries as anchor
\* the article token of the last article heading above its line, and a line
\* with no article heading above it holds no such link: the last article
\* anchor is set by heading lines only.
C19_AnchorOfLastHeading ==
  Returned1("linkify_markdown") =>
    \A j \in 1..Len(Lines(Arg.markdown)) :
      LET Anchored(line, out, heading) ==
            \A p \in UnitLinkEnds(out) :
              /\ heading # None
              /\ p - 6 >= Len(heading[1]) + 1
              /\ SubSeq(out, p - 6 - Len(heading[1]), p - 6) = <<"#">> \o heading[1]
      IN ~KeptAsIs(Lines(Arg.markdown)[j]) =>
           Anchored(Lines(Arg.markdown)[j], Lines(Ret[1])[j],
                    HeadingBefore(Lines(Arg.markdown), j))

\* contained keys of the token `normalized`, and the longest of them by the
\* number of characters
ContainedKeys(normalized, dict) == {k \in DOMAIN dict : Contains(normalized, k)}
LongestContained(normalized, dict) ==
  {k \in ContainedKeys(normalized, dict) :
     \A j \in ContainedKeys(normalized, dict) : Len(j) <= Len(k)}

\* C20: resolve_law_title_from_fragment returns nothing when the fragment does
\* not normalize; for a fragment that normalizes to the token t it returns the
\* canonical title of the entry under the key t when that key exists,
\* otherwise the canonical title of a key contained in t that is at least as
\* long as every other key contained in t, otherwise t itself.
C20_LongestContainedKey ==
  Returned1("resolve_law_title_from_fragment") =>
    LET Titles(d, keys) == {Some(d[k].law_title) : k \in keys}
        OfToken(t, d) ==
          IF t \in DOMAIN d THEN Ret = Some(d[t].law_title)
          ELSE IF ContainedKeys(t, d) # {} THEN Ret \in Titles(d, LongestContained(t, d))
          ELSE Ret = Some(t)
        OfNormalized(n) == IF n = None THEN Ret = None ELSE OfToken(Unwrap(n), Arg.dictionary)
    IN OfNormalized(normalize_law_ref_title(Arg.fragment))

(***************************************************************************)
(* Properties of resolve_candidate.                                         *)
(***************************************************************************)
\* the call that a step of SpecResolve has logged
LastCall == log'[Len(log')]
\* an earlier call for the title searched and accepted a result
AcceptedBefore(title) ==
  \E i \in DOMAIN log : log[i].title = title /\ log[i].searched /\ log[i].ok

\* C21: resolve_candidate calls the search API only when the lookup of the
\* title in the dictionary misses, and once a search result has been accepted
\* for a title, no later call for the same title searches.
C21_SearchOnlyOnMiss ==
  [][LastCall.searched => /\ lookup_dictionary(dictionary, LastCall.title) = None
                          /\ ~AcceptedBefore(LastCall.title)]_vars

\* the candidates of a search result: its items, each once
CandidatesOf(search) ==
  {Candidate(Some(search.laws[i].law_id), search.laws[i].law_num, search.laws[i].law_title) :
     i \in DOMAIN search.laws}
\* the step has learned the aliases of the candidate c for the query: the
\* normalized query and the normalized title of c are keys, a key that was
\* absent holds the entry of c and sets the dirty flag, and nothing else
\* has changed
Learned(title, c) ==
  LET Keys(ns) == {Unwrap(n) : n \in ns \ {None}}
      Added(keys) ==
        /\ DOMAIN dictionary' = DOMAIN dictionary \cup keys
        /\ \A k \in DOMAIN dictionary : dictionary'[k] = dictionary[k]
        /\ \A k \in keys \ DOMAIN dictionary :
             dictionary'[k] = DictEntry(c.law_id, c.law_num, c.law_title)
        /\ dictionary_dirty' = (dictionary_dirty \/ keys \ DOMAIN dictionary # {})
  IN Added(Keys({normalize_law_ref_title(title), normalize_law_ref_title(c.law_title)}))

NonDecreasing(ops) ==
  \A i, j \in Events(ops) : i < j => log[i].entry.depth <= log[j].entry.depth
\* the last note written to the file
LastWrite(f) == Max({i \in Events({"write"}) : log[i].file = f})

\* C23: the depths of the entries run dequeues never decrease; so the depths
\* of the notes written never decrease in the order of the writes, a note
\* records the depth of the entry it was written for, and a statute is
\* written at the smallest depth of all the entries that resolve to it.
C23_BreadthFirst ==
  /\ NonDecreasing({"dequeue", "drop"})
  /\ NonDecreasing({"write"})
  /\ \A i \in Events({"write"}) :
       /\ log[i].file \in DOMAIN notes
       /\ notes[log[i].file].depth = log[LastWrite(log[i].file)].entry.depth
       /\ \A j \in Events({"skip", "fetch", "write"}) :
            log[j].key = log[i].key => log[i].entry.depth <= log[j].entry.depth

\* a finished run that wrote notes at depth 0 and 1 and skipped, at depth 2,
\* an entry that resolved to a statute written at depth 1
C23_Witness ==
  /\ pc = "ok"
  /\ {0, 1} \subseteq {log[i].entry.depth : i \in Events({"write"})}
  /\ \E i \in Events({"write"}), j \in Events({"skip"}) :
       log[i].key = log[j].key /\ log[i].entry.depth = 1 /\ log[j].entry.depth = 2

\* the statute fetched under an identity key, as parse_law_contents returns it
FetchedLaw(key) ==
  Unwrap(parse_law_contents(
           Registry[CHOOSE n \in DOMAIN Registry : <<"i", "d", ":">> \o Registry[n].law_id = key]))
\* the entries a step has pushed behind the rest of the queue
Pushed == SubSeq(queue', Len(queue), Len(queue'))
\* the citations of a body: the (statute name, article) pairs that ref_re
\* captures, as sets of positions that hold the same pair
Citations(markdown) ==
  LET Same(ms, i, j) ==
        /\ SubSeq(markdown, ms[i].from, ms[i].law_end) = SubSeq(markdown, ms[j].from, ms[j].law_end)
        /\ SubSeq(markdown, ms[i].n_from, ms[i].n_to) = SubSeq(markdown, ms[j].n_from, ms[j].n_to)
      Classes(ms) == {{j \in DOMAIN ms : Same(ms, i, j)} : i \in DOMAIN ms}
  IN Classes(RefMatches(markdown, 1))

\* C24: the turn of the loop that writes the note of a statute dequeued at
\* depth d pushes, behind the rest of the queue, one entry for every distinct
\* LawRef (source, title, article) extracted from the body, each of depth
\* d + 1 and with the fetched statute's title as its source; citations that
\* repeat the same article of the same statute give one entry.
C24_OneEntryPerReference ==
  [][\A n \in DOMAIN NewEvents :
       NewEvents[n].op = "write" =>
         LET Titles(refs, t) == Cardinality({r \in refs : r.law_title = t})
             Entries(t) == Cardinality({i \in DOMAIN Pushed : Pushed[i].title = t})
             OnePerRef(law, refs) ==
               /\ Len(Pushed) = Cardinality(refs)
               /\ \A i \in DOMAIN Pushed :
                    /\ Pushed[i].depth = NewEvents[n].entry.depth + 1
                    /\ Pushed[i].source_law = law.law_title
                    /\ Entries(Pushed[i].title) = Titles(refs, Pushed[i].title)
               /\ Len(Pushed) <= Cardinality(Citations(law.markdown))
             OfLaw(law) ==
               \E order \in KeyOrders(law.markdown, dictionary') :
                 OnePerRef(law, extract_external_references(law.markdown, dictionary',
                                                            law.law_title, order))
         IN /\ SubSeq(queue', 1, Len(queue) - 1) = Tail(queue)
            /\ OfLaw(FetchedLaw(NewEvents[n].key))]_vars

\* the note of 商法 was written: its body cites 民法第1条 twice and 民法第2条
\* once, and the queue ends in its three entries, two of them titled 民法
C24_Witness ==
  /\ log[Len(log)].op = "write"
  /\ log[Len(log)].key = <<"i", "d", ":">> \o Registry[3].law_id
  /\ Len(queue) >= 3
  /\ Cardinality({i \in DOMAIN queue : queue[i].title = MinHo /\ queue[i].source_law = ShouHo}) = 2
  /\ Cardinality({i \in DOMAIN queue : queue[i].source_law = ShouHo}) = 3

(***************************************************************************)
(* Properties of the refresh of the dictionary.                             *)
(***************************************************************************)
\* the requests of pages, in the order of the log
PageRequests == SelectSeq(log, LAMBDA e : e.op = "list")

\* C25: refresh_dictionary_from_api requests the pages at the offsets 0, 100,
\* 200, ... in this order, each with limit 100; the first page without items
\* is its last request; a failed request is its last request too, main then
\* returns the error and the dictionary file is as it was loaded, also when
\* --build-dictionary has cleared the dictionary in memory.
C25_PagesInOrder ==
  /\ \A i \in DOMAIN PageRequests :
       /\ PageRequests[i].limit = 100
       /\ PageRequests[i].offset = 100 * (i - 1)
       /\ (~PageRequests[i].ok \/ PageRequests[i].items = 0) => i = Len(PageRequests)
       /\ ~PageRequests[i].ok =>
            /\ pc.at = "err"
            /\ dict_file = LoadedFile
            /\ Events({"write_dictionary"}) = {}
  /\ (pc.at = "refresh" /\ PageRequests # <<>>) =>
       PageRequests[Len(PageRequests)].ok /\ PageRequests[Len(PageRequests)].items > 0
  /\ pc.at \in {"main", "refresh"} => dict_file = LoadedFile

\* --build-dictionary on a loaded dictionary: the first page was served and
\* inserted, the request at offset 100 failed, and the file is the loaded one
C25_Witness ==
  /\ pc.at = "err"
  /\ pc.build_dictionary
  /\ pc.changed
  /\ Len(PageRequests) = 2
  /\ ~PageRequests[2].ok
  /\ PageRequests[2].offset = 100
  /\ dictionary # log[1].dictionary
  /\ dict_file = Some(log[1].dictionary)

(***************************************************************************)
(* Properties of write_law_note.                                            *)
(***************************************************************************)
\* the step has fetched a statute whose note file exists
FetchedExisting ==
  \E n \in DOMAIN NewEvents :
    /\ NewEvents[n].op = "fetch"
    /\ NewEvents[n].ok
    /\ NoteFile(FetchedLaw(NewEvents[n].key).law_title) \in DOMAIN notes

\* C26: with the no-overwrite flag set no step changes a note file that
\* exists; the turn of the loop that has fetched a statute whose note file
\* exists writes nothing, appends no unresolved event, leaves the dictionary
\* as resolve_candidate returned it, and ends the run with the error.
C26_NoOverwrite ==
  [][no_overwrite =>
       /\ \A f \in DOMAIN notes : f \in DOMAIN notes' /\ notes'[f] = notes[f]
       /\ FetchedExisting =>
            /\ notes' = notes
            /\ unresolved_refs' = unresolved_refs
            /\ \E sr \in Resolutions : /\ dictionary' = sr[2].d.dictionary
                                        /\ dictionary_dirty' = sr[2].d.dictionary_dirty
            /\ \A n \in DOMAIN NewEvents : NewEvents[n].op # "write"
            /\ NewEvents[Len(NewEvents)] = [op |-> "return", ok |-> FALSE]
            /\ pc' = "err"
            /\ dict_file' = dict_file
            /\ unresolved_file' = unresolved_file]_vars

\* with the flag set the run wrote the note of 刑法 and recorded its 前条,
\* then met 民法, whose note an earlier run had left, and returned the error
\* with the old note in place
C26_Witness ==
  /\ no_overwrite
  /\ pc = "err"
  /\ Events({"write"}) # {}
  /\ log[Len(log) - 1].op = "fetch"
  /\ log[Len(log) - 1].ok
  /\ log[Len(log) - 1].key = <<"i", "d", ":">> \o Registry[1].law_id
  /\ log[Len(log) - 1].entry.depth > 0
  /\ notes[NoteFile(MinHo)] = OldNote
  /\ \A i \in DOMAIN unresolved_refs : unresolved_refs[i].source_law # MinHo

\* C27: normalize_law_ref_title is idempotent: applied to a token it has
\* returned, it returns the same token; and a statute name (a text it returns
\* as it is) yields the same token when an amendment qualifier (改正前,
\* 改正後, 旧, 新) is put in front of it.
C27_NormalizeIdempotent ==
  (Returned1("normalize_law_ref_title") /\ Ret # None) =>
    /\ normalize_law_ref_title(Ret[1]) = Ret
    /\ Ret = Some(Arg) =>
         \A i \in DOMAIN Qualifiers : normalize_law_ref_title(Qualifiers[i] \o Arg) = Ret

(***************************************************************************)
(* Properties of the end of run.                                            *)
(***************************************************************************)
SaveOps == {"save_unresolved", "save_dictionary"}
\* run returned the error of create_dir_all, of the root's resolution, of a
\* fetch, or of a note write (the fetch is then the last event of the turn)
AbortedInLoop ==
  /\ pc = "err"
  /\ log[Len(log)] = [op |-> "return", ok |-> FALSE]
  /\ \/ log[Len(log) - 1].op \in {"load", "fetch"}
     \/ log[Len(log) - 1].op = "resolve" /\ log[Len(log) - 1].entry.depth = 0

\* C28: the two files are written only once the queue is empty, the
\* unresolved store first and the dictionary second; a run that returns the
\* error of a resolution, a fetch or a note write leaves both files as they
\* were loaded, and so does, for the dictionary, a run whose save of the
\* unresolved store fails.
C28_PersistedAtTheEndOnly ==
  /\ \A i \in Events(SaveOps) :
       /\ queue = <<>>
       /\ \A j \in Events(TurnOps \cup {"drop"}) : j < i
  /\ \A i \in Events({"save_unresolved"}), j \in Events({"save_dictionary"}) : i < j
  /\ Events({"save_unresolved"}) = {} => unresolved_file = LoadedStore
  /\ ~DictionarySaved => dict_file = LoadedFile
  /\ AbortedInLoop => Events(SaveOps) = {}
  /\ (unresolved_refs # <<>> /\ Events({"save_unresolved"}) = {}) => ~DictionarySaved

\* the queue was drained with events recorded and aliases learned, the save
\* of the unresolved store failed, and the dictionary file is the loaded one
C28_Witness ==
  /\ pc = "err"
  /\ queue = <<>>
  /\ unresolved_refs # <<>>
  /\ dictionary_dirty
  /\ Events({"write"}) # {}
  /\ Events(SaveOps) = {}
  /\ ~AbortedInLoop
  /\ dict_file = LoadedFile
  /\ dict_file # Some(dictionary)

\* the run wrote a note, learned aliases, and returned the error of a fetch:
\* neither file was written
C28_AbortWitness ==
  /\ AbortedInLoop
  /\ log[Len(log) - 1].op = "fetch"
  /\ Events({"write"}) # {}
  /\ dictionary_dirty
  /\ unresolved_refs # <<>>
  /\ unresolved_file = LoadedStore
  /\ dict_file = LoadedFile

(***************************************************************************)
(* Properties of the visible text of a linkified line.                      *)
(***************************************************************************)
\* the first position from i on where p starts in s, 0 when there is none
Find(s, i, p) ==
  LET First(ps) == IF ps = {} THEN 0 ELSE MinOf(ps)
  IN First({k \in i..Len(s) : StartsWithAt(s, k, p)})
RECURSIVE Unlinked(_, _)
\* the text from s[i] on as a reader sees it: every link [[target|label]]
\* replaced by its label
Unlinked(s, i) ==
  LET Label(bar, close) ==
        IF bar = 0 \/ close = 0 THEN <<s[i]>> \o Unlinked(s, i + 1)
        ELSE SubSeq(s, bar + 1, close - 1) \o Unlinked(s, close + 2)
      Bar(bar) == Label(bar, IF bar = 0 THEN 0 ELSE Find(s, bar + 1, <<"]", "]">>))
  IN IF i > Len(s) THEN <<>>
     ELSE IF StartsWithAt(s, i, <<"[", "[">>) THEN Bar(Find(s, i + 2, <<"|">>))
     ELSE <<s[i]>> \o Unlinked(s, i + 1)

\* C29: linkify_markdown only adds link markup: for every input line that
\* neither starts with # nor holds [[, the output line with every link
\* replaced by its label is the input line.
C29_OnlyMarkupAdded ==
  Returned1("linkify_markdown") =>
    \A j \in DOMAIN Lines(Arg.markdown) :
      ~KeptAsIs(Lines(Arg.markdown)[j]) =>
        Unlinked(Lines(Ret[1])[j], 1) = Lines(Arg.markdown)[j]

(***************************************************************************)
(* Properties of the note files of a run.                                   *)
(***************************************************************************)
\* C30: within one run no note file is written more than once: the statutes
\* visited under distinct identities have distinct note files.
C30_NoFileWrittenTwice ==
  \A i, j \in Events({"write"}) : log[i].file = log[j].file => i = j

=============================================================================
